---- MODULE Spec2Model ----
(***************************************************************************)
(* Model of the Druim front end parser (src/src/compiler/parser.rs).       *)
(*                                                                         *)
(* A token is a record [kind, lexeme]; the parser's cursor `index` is      *)
(* 1-based here (Rust index + 1).  Every parse function of the source is   *)
(* an operator over (toks, i) returning one of                             *)
(*    [st |-> "ok",    node |-> n, i |-> cursor after]                     *)
(*    [st |-> "err",   diag |-> d]          (Err(Diagnostic))              *)
(*    [st |-> "panic", why  |-> text]       (unreachable! / index panic)   *)
(* Texts (help strings) are sequences of words, punctuation marks apart    *)
(* and code examples without their back quotes, so that str::contains can  *)
(* be evaluated.                                                           *)
(***************************************************************************)
EXTENDS Integers, Sequences, FiniteSets, TLC

VARIABLES tokens, index, nodes, result, handler, stmt_start, src, pos, diagnostic,
          env, calls

vars == <<tokens, index, nodes, result, handler, stmt_start, src, pos, diagnostic,
          env, calls>>

\* no evaluator has been made
NoEnv == [scopes |-> <<>>]

\* no diagnostic is being rendered
NoDiagnostic == [severity |-> "None"]

(***************************************************************************)
(* Tokens                                                                  *)
(***************************************************************************)
Token(k, l) == [kind |-> k, lexeme |-> l]

Ident(n) == Token("Ident", n)
NumLit(l) == Token("NumLit", l)
Eof == Token("Eof", "")
Semi == Token("Semicolon", ";")

\* Node constructors (Node enum as used by the parser)
NodeIdent(n) == [tag |-> "Ident", name |-> n]
NodeLit(k, n, l) == [tag |-> "Lit", lit |-> k, num |-> n, text |-> l]
NodeUnary(t, x) == [tag |-> t, operand |-> x]
NodeBinary(t, l, r) == [tag |-> t, lhs |-> l, rhs |-> r]
NodeCall(c, a) == [tag |-> "Call", callee |-> c, args |-> a]
NodeBlock(ns) == [tag |-> "Block", nodes |-> ns]
NodeFunc(n, ps, bs) == [tag |-> "Func", name |-> n, params |-> ps, bodies |-> bs]
NodeRet(has, v) == [tag |-> "Ret", has_value |-> has, value |-> v]
NodeDefine(n, v) == [tag |-> "Define", name |-> n, value |-> v]
NodeDefineEmpty(n) == [tag |-> "DefineEmpty", name |-> n]
NodeCopy(n, t) == [tag |-> "Copy", name |-> n, target |-> t]
NodeBind(n, t) == [tag |-> "Bind", name |-> n, target |-> t]
NodeGuard(t, bs) == [tag |-> "Guard", target |-> t, branches |-> bs]
NoNode == [tag |-> "None"]
Param(n, has, d) == [name |-> n, has_default |-> has, default |-> d]

\* Results of a fallible parse step
Ok(n, i) == [st |-> "ok", node |-> n, i |-> i]
Err(d) == [st |-> "err", diag |-> d]
Panic(w) == [st |-> "panic", why |-> w]

(***************************************************************************)
(* Diagnostic (error.rs) as built by the parser: message, primary span,    *)
(* help.  A span is the byte range of token `tok` (zero = FALSE) or the    *)
(* zero-width position just after token `tok` (zero = TRUE).               *)
(***************************************************************************)
Span(t, z) == [tok |-> t, zero |-> z]
TokSpan(i) == Span(i, FALSE)

DiagnosticError(msg, span) == [severity |-> "error", message |-> msg, span |-> span, help |-> <<>>]
WithHelp(d, h) == [d EXCEPT !.help = h]

\* `let x = value; rest`: the value is computed once and `rest` runs on it
Bound(value, rest(_)) == CHOOSE out \in {rest(x) : x \in {value}} : TRUE

\* str::contains on word sequences
Contains(text, phrase) ==
    \E k \in 0..(Len(text) - Len(phrase)) :
        \A j \in 1..Len(phrase) : text[k + j] = phrase[j]

\* str::len of the lexemes of the model, in bytes (a lexeme that is not listed
\* is a single byte)
ByteLen(l) ==
    CASE l = "" -> 0
      [] l \in {"=;", ":=", ":>", "?=", "fn", ":{", "}:", "}{", ":(", "):", ")(", "!?",
                "<=", ">=", "==", "!=", "&?", "|?", "::", ":?", "|>", "42", "f2", "_f",
                "f_"} -> 2
      [] l \in {"ret", "loc", "000", "Foo"} -> 3
      [] l \in {"void", "f__g"} -> 4
      [] l \in {"add_one", "do_work"} -> 7
      [] OTHER -> 1

\* tok.lexeme.len()
lexeme_len(tok) == ByteLen(tok.lexeme)

\* the bytes the token takes in the source: the lexer slices every lexeme out
\* of the source, but read_text leaves the two quotes of a text literal out
source_len(tok) == IF tok.kind = "TextLit" THEN ByteLen(tok.lexeme) + 2 ELSE ByteLen(tok.lexeme)

\* Token.pos as the lexer sets it on a source whose tokens are one blank apart
RECURSIVE token_pos(_, _)
token_pos(toks, i) ==
    IF i <= 1 THEN 0
    ELSE token_pos(toks, i - 1) + source_len(toks[i - 1])
         + (IF toks[i].kind = "Eof" THEN 0 ELSE 1)

\* the Span { start, end } that a span of the model stands for
span_bytes(toks, sp) ==
    IF sp.tok = 0 THEN [start |-> 0, end |-> 0]
    ELSE IF sp.zero
    THEN [start |-> token_pos(toks, sp.tok) + lexeme_len(toks[sp.tok]),
          end |-> token_pos(toks, sp.tok) + lexeme_len(toks[sp.tok])]
    ELSE [start |-> token_pos(toks, sp.tok),
          end |-> token_pos(toks, sp.tok) + lexeme_len(toks[sp.tok])]

(***************************************************************************)
(* Cursor helpers                                                          *)
(***************************************************************************)
peek_kind(toks, i) == IF i <= Len(toks) THEN toks[i].kind ELSE "Eof"

\* cursor after bump(): advances only when a token exists
bump(toks, i) == IF i <= Len(toks) THEN i + 1 ELSE i

current_span(toks, i) ==
    IF i <= Len(toks) THEN TokSpan(i)
    ELSE IF Len(toks) > 0 THEN Span(Len(toks), TRUE)
    ELSE Span(0, TRUE)

\* tokens[from..].iter().position(|t| t.kind == k): 0 when there is none
RECURSIVE position(_, _, _)
position(toks, from, k) ==
    IF from > Len(toks) THEN 0
    ELSE IF toks[from].kind = k THEN from
    ELSE position(toks, from + 1, k)

StatementOperators == {"Define", "DefineEmpty", "Copy", "Bind", "Guard"}

\* first j in from..(to-1) whose kind is in ks, 0 when there is none
RECURSIVE scan_for(_, _, _, _)
scan_for(toks, from, to, ks) ==
    IF from >= to THEN 0
    ELSE IF toks[from].kind \in ks THEN from
    ELSE scan_for(toks, from + 1, to, ks)

(***************************************************************************)
(* Expression sub-parser (Pratt parser)                                    *)
(***************************************************************************)
PREFIX_BP == 90

\* lexeme.parse::<i64>().unwrap_or(0) on the numeric lexemes of the model:
\* a decimal digit string gives its value, one that overflows i64 gives 0
parse_i64(l) ==
    CASE l = "0" -> 0
      [] l = "000" -> 0
      [] l = "1" -> 1
      [] l = "2" -> 2
      [] l = "3" -> 3
      [] l = "42" -> 42
      [] OTHER -> 0

NoBp == [some |-> FALSE, l_bp |-> 0, r_bp |-> 0, kind |-> "None"]
Bp(l, r, k) == [some |-> TRUE, l_bp |-> l, r_bp |-> r, kind |-> k]

\* infix_binding_power with the additive pair the wrong way round
infix_binding_power_right_assoc(op) ==
    CASE op = "LParen" -> Bp(95, 96, "Call")
      [] op \in {"Mul", "Div", "Mod"} -> Bp(70, 71, op)
      [] op \in {"Add", "Sub"} -> Bp(61, 60, op)
      [] op \in {"Lt", "Le", "Gt", "Ge"} -> Bp(50, 51, op)
      [] op \in {"Eq", "Ne"} -> Bp(45, 46, op)
      [] op = "And" -> Bp(30, 31, "And")
      [] op = "Or" -> Bp(25, 26, "Or")
      [] op \in {"Has", "Present"} -> Bp(22, 23, op)
      [] op = "Pipe" -> Bp(20, 21, "Pipe")
      [] OTHER -> NoBp

infix_binding_power(op) ==
    CASE op = "LParen" -> Bp(95, 96, "Call")
      [] op = "Mul" -> Bp(70, 71, "Mul")
      [] op = "Div" -> Bp(70, 71, "Div")
      [] op = "Mod" -> Bp(70, 71, "Mod")
      [] op = "Add" -> Bp(60, 61, "Add")
      [] op = "Sub" -> Bp(60, 61, "Sub")
      [] op = "Lt" -> Bp(50, 51, "Lt")
      [] op = "Le" -> Bp(50, 51, "Le")
      [] op = "Gt" -> Bp(50, 51, "Gt")
      [] op = "Ge" -> Bp(50, 51, "Ge")
      [] op = "Eq" -> Bp(45, 46, "Eq")
      [] op = "Ne" -> Bp(45, 46, "Ne")
      [] op = "And" -> Bp(30, 31, "And")
      [] op = "Or" -> Bp(25, 26, "Or")
      [] op = "Has" -> Bp(22, 23, "Has")
      [] op = "Present" -> Bp(22, 23, "Present")
      [] op = "Pipe" -> Bp(20, 21, "Pipe")
      [] OTHER -> NoBp

\* build_infix: every Infix kind but Call builds the binary node of the same
\* name; Call reaches unreachable!()
build_infix(kind, lhs, rhs, i) ==
    IF kind = "Call" THEN Panic("unreachable: Call is handled in parse_bp")
    ELSE Ok(NodeBinary(kind, lhs, rhs), i)

\* expect(kind): cursor after the expected token, or the diagnostic
expect(toks, i, kind, expected) ==
    IF i > Len(toks)
    THEN Err(WithHelp(DiagnosticError("unexpected end of input",
                                      Span(current_span(toks, i).tok, TRUE)), expected))
    ELSE IF toks[i].kind # kind
    THEN Err(WithHelp(DiagnosticError("unexpected token", TokSpan(i)), expected))
    ELSE Ok(NoNode, i + 1)

\* the LParen arm of parse_prefix once the inner expression is parsed:
\* expect(RParen) and hand the inner expression on
close_paren(toks, expr) ==
    LET Closed(e) == IF e.st # "ok" THEN e ELSE Ok(expr.node, e.i)
    IN Bound(expect(toks, expr.i, "RParen", <<")">>), Closed)

RECURSIVE parse_bp(_, _, _)
RECURSIVE parse_bp_loop(_, _, _, _)
RECURSIVE parse_prefix(_, _)

parse_prefix(toks, i) ==
    IF i > Len(toks)
    THEN Err(WithHelp(DiagnosticError("unexpected end of input",
                                      Span(current_span(toks, i).tok, TRUE)),
                      <<"Druim", "expected", "a", "value", "expression", "here", ".">>))
    ELSE
    LET tok == toks[i]
        k == tok.kind
    IN
    CASE k = "Ident" -> Ok(NodeIdent(tok.lexeme), i + 1)
      [] k = "NumLit" -> Ok(NodeLit("Num", parse_i64(tok.lexeme), ""), i + 1)
      [] k = "DecLit" -> Ok(NodeLit("Dec", 0, tok.lexeme), i + 1)
      [] k = "TextLit" -> Ok(NodeLit("Text", 0, tok.lexeme), i + 1)
      [] k = "KwVoid" -> Ok(NodeLit("Void", 0, ""), i + 1)
      [] k \in {"Not", "Sub", "LParen"} ->
            LET Built(rhs) ==
                    IF rhs.st # "ok" THEN rhs
                    ELSE CASE k = "Not" -> Ok(NodeUnary("Not", rhs.node), rhs.i)
                           [] k = "Sub" -> Ok(NodeUnary("Neg", rhs.node), rhs.i)
                           [] OTHER -> close_paren(toks, rhs)
            IN Bound(parse_bp(toks, i + 1, IF k = "LParen" THEN 0 ELSE PREFIX_BP), Built)
      [] k \in StatementOperators ->
            Err(WithHelp(DiagnosticError("invalid value expression", TokSpan(i)),
                <<"Statement", "operators", "are", "not", "valid", "values", ".",
                  "Use", "them", "as", "complete", "statements", "ending", "with", ";", ".">>))
      [] k \in {"KwFn", "KwLoc", "KwRet", "BlockStart"} ->
            Err(WithHelp(DiagnosticError("invalid value expression", TokSpan(i)),
                <<"This", "construct", "cannot", "be", "used", "as", "a", "value", ".",
                  "It", "must", "appear", "in", "its", "own", "statement", "context", ".">>))
      [] OTHER ->
            Err(WithHelp(DiagnosticError("unexpected token in value expression", TokSpan(i)),
                <<"Druim", "expected", "a", "value", "here", ".">>))

\* the `loop` of parse_bp, with `lhs` parsed and the cursor at i
parse_bp_loop(toks, lhs, i, min_bp) ==
    LET Step(bp) ==
            LET Again(built) ==
                    IF built.st # "ok" THEN built
                    ELSE parse_bp_loop(toks, built.node, built.i, min_bp)
                Build(rhs) ==
                    IF rhs.st # "ok" THEN rhs
                    ELSE Bound(build_infix(bp.kind, lhs, rhs.node, rhs.i), Again)
            IN IF ~bp.some THEN Ok(lhs, i)
               ELSE IF bp.l_bp < min_bp THEN Ok(lhs, i)
               ELSE Bound(parse_bp(toks, bump(toks, i), bp.r_bp), Build)
    IN Bound(infix_binding_power(peek_kind(toks, i)), Step)

parse_bp(toks, i, min_bp) ==
    LET Loop(lhs) ==
            IF lhs.st # "ok" THEN lhs
            ELSE parse_bp_loop(toks, lhs.node, lhs.i, min_bp)
    IN Bound(parse_prefix(toks, i), Loop)

parse_expr(toks, i) == parse_bp(toks, i, 0)

(***************************************************************************)
(* Values and calls                                                        *)
(***************************************************************************)
RECURSIVE parse_rhs(_, _)
RECURSIVE parse_call(_, _)
RECURSIVE parse_call_args(_, _, _)

\* the argument `loop` of parse_call; the result node is the argument list
parse_call_args(toks, i, args) ==
    LET Push(arg) ==
            IF arg.st # "ok" THEN arg
            ELSE LET k == peek_kind(toks, arg.i)
                 IN CASE k = "Comma" ->
                        parse_call_args(toks, bump(toks, arg.i), Append(args, arg.node))
                      [] k = "RParen" -> Ok(Append(args, arg.node), arg.i)
                      [] OTHER ->
                        Err(WithHelp(DiagnosticError("invalid function call",
                                                     current_span(toks, arg.i)),
                            <<"Function", "arguments", "must", "be", "separated", "by",
                              "commas", "and", "closed", "with", ")", ".">>))
    IN Bound(parse_rhs(toks, i), Push)

parse_call(toks, i) ==
    IF i > Len(toks)
    THEN Err(WithHelp(DiagnosticError("unexpected end of input", current_span(toks, i)),
                      <<"Druim", "expected", "a", "function", "call", ".">>))
    ELSE IF toks[i].kind # "Ident"
    THEN Err(WithHelp(DiagnosticError("invalid function call", TokSpan(i)),
             <<"Druim", "expected", "a", "function", "name", "before", "the", "call",
               "parentheses", ".", "Example", ":", "foo(1, 2)">>))
    ELSE IF peek_kind(toks, i + 1) # "LParen"
    THEN Err(WithHelp(DiagnosticError("invalid function call", current_span(toks, i + 1)),
             <<"Druim", "expected", "(", "after", "the", "function", "name", ".",
               "Example", ":", "foo(1)">>))
    ELSE LET callee == NodeIdent(toks[i].lexeme)
             open == bump(toks, i + 1)
             Call(args) ==
                 IF args.st # "ok" THEN args
                 ELSE Ok(NodeCall(callee, args.node), bump(toks, args.i))
         IN Bound(IF peek_kind(toks, open) # "RParen"
                 THEN parse_call_args(toks, open, <<>>)
                 ELSE Ok(<<>>, open), Call)

\* parse_rhs without the bare-identifier check
parse_rhs_accepts_ident(toks, i) ==
    IF peek_kind(toks, i) = "Ident" /\ i + 1 <= Len(toks) /\ toks[i + 1].kind = "LParen"
    THEN parse_call(toks, i)
    ELSE parse_expr(toks, i)

parse_rhs(toks, i) ==
    LET start_span == current_span(toks, i)
        Checked(value) ==
            IF value.st # "ok" THEN value
            ELSE IF value.node.tag = "Ident"
            THEN Err(WithHelp(DiagnosticError("invalid value expression", start_span),
                     <<"A", "bare", "identifier", "is", "not", "a", "value", ".",
                       "Use", "a", "function", "call", ",", "copy", "(", ":=", ")", ",",
                       "or", "bind", "(", ":>", ")", "instead", ".">>))
            ELSE value
    IN IF peek_kind(toks, i) = "Ident" /\ i + 1 <= Len(toks) /\ toks[i + 1].kind = "LParen"
       THEN parse_call(toks, i)
       ELSE Bound(parse_expr(toks, i), Checked)

parse_call_statement(toks, i) ==
    LET stmt_end == position(toks, i, "Semicolon")
    IN
    IF stmt_end = 0
    THEN Err(WithHelp(DiagnosticError("unterminated function call statement",
                                      current_span(toks, i)),
             <<"Druim", "expected", "a", "semicolon", ";", "to", "terminate", "this",
               "function", "call", ".", "Example", ":", "do_work();">>))
    ELSE IF i > Len(toks)
    THEN Err(WithHelp(DiagnosticError("invalid function call statement",
                                      current_span(toks, i)),
             <<"A", "function", "call", "statement", "must", "begin", "with", "a",
               "function", "name", ".", "Example", ":", "do_work();">>))
    ELSE IF toks[i].kind # "Ident"
    THEN Err(WithHelp(DiagnosticError("invalid function call statement", TokSpan(i)),
             <<"Function", "call", "statements", "must", "begin", "with", "an",
               "identifier", ".", "Example", ":", "do_work();">>))
    ELSE IF peek_kind(toks, i + 1) # "LParen"
    THEN Err(WithHelp(DiagnosticError("invalid function call statement",
                                      current_span(toks, i + 1)),
             <<"A", "bare", "identifier", "is", "not", "a", "valid", "statement", ".",
               "Did", "you", "mean", "to", "call", "a", "function", "?",
               "Example", ":", "do_work();">>))
    ELSE LET bad == scan_for(toks, i + 1, stmt_end, StatementOperators)
         IN IF bad # 0
            THEN Err(WithHelp(DiagnosticError("invalid function call statement", TokSpan(bad)),
                     <<"Function", "call", "statements", "cannot", "be", "chained", "with",
                       "other", "statement", "operators", ".",
                       "Split", "this", "into", "multiple", "statements", ".">>))
            ELSE LET Terminated(call) ==
                         IF call.st # "ok" THEN call
                         ELSE Ok(call.node, bump(toks, call.i))
                 IN Bound(parse_call(toks, i + 1), Terminated)

(***************************************************************************)
(* Statement parsers                                                       *)
(***************************************************************************)
\* cursor after the optional `loc`
skip_loc(toks, i) == IF peek_kind(toks, i) = "KwLoc" THEN bump(toks, i) ELSE i

\* parse_ret without the scan for statement operators inside the value
parse_ret_without_scan(toks, i0) ==
    LET i == bump(toks, i0)
        stmt_end == position(toks, i, "Semicolon")
    IN
    IF stmt_end = 0
    THEN Err(WithHelp(DiagnosticError("unterminated return statement", current_span(toks, i)),
             <<"Druim", "expected", "a", "semicolon", ";", "to", "terminate", "this",
               "return", "statement", ".", "Examples", ":", "ret;", "ret 42;">>))
    ELSE IF peek_kind(toks, i) = "Semicolon"
    THEN Ok(NodeRet(FALSE, NoNode), bump(toks, i))
    ELSE LET Ret(value) ==
                 IF value.st # "ok" THEN value
                 ELSE Ok(NodeRet(TRUE, value.node), bump(toks, value.i))
         IN Bound(parse_rhs(toks, i), Ret)

parse_ret(toks, i0) ==
    LET i == bump(toks, i0)
        stmt_end == position(toks, i, "Semicolon")
    IN
    IF stmt_end = 0
    THEN Err(WithHelp(DiagnosticError("unterminated return statement", current_span(toks, i)),
             <<"Druim", "expected", "a", "semicolon", ";", "to", "terminate", "this",
               "return", "statement", ".", "Examples", ":", "ret;", "ret 42;">>))
    ELSE IF peek_kind(toks, i) = "Semicolon"
    THEN Ok(NodeRet(FALSE, NoNode), bump(toks, i))
    ELSE LET bad == scan_for(toks, i, stmt_end, StatementOperators \cup {"KwRet"})
         IN IF bad # 0
            THEN Err(WithHelp(DiagnosticError("invalid return statement", TokSpan(bad)),
                     <<"Return", "values", "must", "be", "a", "value", "expression", "or",
                       "function", "call", ".", "Statements", "are", "not", "allowed",
                       "inside", "ret", ".", "Example", ":", "ret x + 1;">>))
            ELSE LET Ret(value) ==
                         IF value.st # "ok" THEN value
                         ELSE Ok(NodeRet(TRUE, value.node), bump(toks, value.i))
                 IN Bound(parse_rhs(toks, i), Ret)

parse_define_empty(toks, i0) ==
    LET i == skip_loc(toks, i0)
    IN
    IF i > Len(toks)
    THEN Err(WithHelp(DiagnosticError("invalid define empty statement", current_span(toks, i)),
             <<"Druim", "define", "empty", "statements", "must", "start", "with", "an",
               "identifier", ".">>))
    ELSE IF toks[i].kind # "Ident"
    THEN Err(WithHelp(DiagnosticError("invalid define empty statement", TokSpan(i)),
             <<"Druim", "Define", "empty", "statements", "must", "begin", "with", "an",
               "identifier", ".", "Example", ":", "x = 42;">>))
    ELSE LET name == toks[i].lexeme
             after == bump(toks, i + 1)
         IN IF peek_kind(toks, after) \in StatementOperators
            THEN Err(WithHelp(DiagnosticError("invalid define empty statement",
                                              current_span(toks, after)),
                     <<"Druim", "statement", "operators", "cannot", "be", "chained", ".",
                       "Split", "this", "into", "multiple", "statements", ".",
                       "Example", ":", "a =; b = 1;">>))
            ELSE Ok(NodeDefineEmpty(name), after)

parse_define(toks, i0) ==
    LET stmt_end == position(toks, i0, "Semicolon")
        i == skip_loc(toks, i0)
    IN
    IF stmt_end = 0
    THEN Err(WithHelp(DiagnosticError("unterminated define statement", current_span(toks, i0)),
             <<"Druim", "expected", "a", "semicolon", ";", "to", "terminate", "this",
               "define", "statement", ".", "Example", ":", "x = 42;">>))
    ELSE IF i > Len(toks)
    THEN Err(WithHelp(DiagnosticError("invalid define statement", current_span(toks, i)),
             <<"Druim", "define", "statements", "must", "start", "with", "an",
               "identifier", ".">>))
    ELSE IF toks[i].kind # "Ident"
    THEN Err(WithHelp(DiagnosticError("invalid define statement", TokSpan(i)),
             <<"Druim", "define", "statements", "must", "begin", "with", "an",
               "identifier", ".", "Example", ":", "x = 42;">>))
    ELSE LET name == toks[i].lexeme
             rhs == bump(toks, i + 1)
             bad == scan_for(toks, rhs, stmt_end, StatementOperators)
         IN
         IF peek_kind(toks, rhs) = "Semicolon"
         THEN Err(WithHelp(DiagnosticError("invalid define statement", current_span(toks, rhs)),
                  <<"A", "define", "statement", "requires", "a", "value", "after", "=", ".",
                    "Did", "you", "mean", "to", "use", "the", "empty", "define", "operator",
                    "?", "Example", ":", "x =;">>))
         ELSE IF bad # 0
         THEN Err(WithHelp(DiagnosticError("invalid define statement", TokSpan(bad)),
                  <<"Define", "statements", "cannot", "contain", "other", "statement",
                    "operators", ".", "If", "you", "intended", "to", "assign", "from",
                    "another", "identifier", ",", "use", ":=", ".",
                    "Example", ":", "a := b;">>))
         ELSE IF rhs + 1 = stmt_end /\ toks[rhs].kind = "Ident"
         THEN Err(WithHelp(DiagnosticError("invalid define statement", TokSpan(rhs)),
                  <<"Define", "statements", "cannot", "assign", "directly", "from",
                    "another", "identifier", ".", "Use", ":=", "to", "copy", "from", "an",
                    "identifier", ".", "Example", ":", "a := b;">>))
         ELSE LET Define(value) ==
                      IF value.st # "ok" THEN value
                      ELSE Ok(NodeDefine(name, value.node), bump(toks, value.i))
              IN Bound(parse_rhs(toks, rhs), Define)

\* parse_copy and parse_bind are the same code but for the words of their
\* diagnostics and the node they build: `word` is "copy" or "bind", `Word`
\* its capitalised form, `op` the operator's text
copy_or_bind(toks, i0, word, Word, op) ==
    LET stmt_end == position(toks, i0, "Semicolon")
        i == skip_loc(toks, i0)
        message == IF word = "copy" THEN "invalid copy statement" ELSE "invalid bind statement"
        example == IF word = "copy" THEN "a := b;" ELSE "a :> b;"
    IN
    IF stmt_end = 0
    THEN Err(WithHelp(DiagnosticError(IF word = "copy" THEN "unterminated copy statement"
                                      ELSE "unterminated bind statement",
                                      current_span(toks, i0)),
             <<"Druim", "expected", "a", "semicolon", ";", "to", "terminate", "this",
               word, "statement", ".", "Example", ":", example>>))
    ELSE IF i > Len(toks) \/ toks[i].kind # "Ident"
    THEN Err(WithHelp(DiagnosticError(message,
                                      IF i > Len(toks) THEN current_span(toks, i) ELSE TokSpan(i)),
             <<Word, "statements", "must", "begin", "with", "an", "identifier", ".",
               "Example", ":", example>>))
    ELSE LET name == toks[i].lexeme
             r == bump(toks, i + 1)
         IN
         IF r > Len(toks) \/ toks[r].kind # "Ident"
         THEN Err(WithHelp(DiagnosticError(message,
                                           IF r > Len(toks) THEN current_span(toks, r) ELSE TokSpan(r)),
                  <<Word, "statements", "require", "an", "identifier", "after", op, ".",
                    "Example", ":", example>>))
         ELSE LET target == toks[r].lexeme
                  bad == scan_for(toks, r + 1, stmt_end, StatementOperators)
              IN IF bad # 0
                 THEN Err(WithHelp(DiagnosticError(message, TokSpan(bad)),
                          <<Word, "statements", "cannot", "be", "chained", ".",
                            "Split", "this", "into", "multiple", "statements", ".",
                            "Example", ":",
                            IF word = "copy" THEN "a := b; c := d;" ELSE "a :> b; c :> d;">>))
                 ELSE Ok(IF word = "copy" THEN NodeCopy(name, target)
                         ELSE NodeBind(name, target),
                         bump(toks, r + 1))

parse_copy(toks, i0) == copy_or_bind(toks, i0, "copy", "Copy", ":=")

parse_bind(toks, i0) == copy_or_bind(toks, i0, "bind", "Bind", ":>")

\* the fallback-branch `while` of parse_guard; the result node is the branch list
RECURSIVE parse_guard_branches(_, _, _)
parse_guard_branches(toks, i, branches) ==
    IF peek_kind(toks, i) # "Colon" THEN Ok(branches, i)
    ELSE LET j == bump(toks, i)
         IN IF peek_kind(toks, j) = "Semicolon"
            THEN Err(WithHelp(DiagnosticError("invalid guard statement", current_span(toks, j)),
                     <<"Expected", "a", "value", "after", ":", "in", "guard", "statement", ".",
                       "Example", ":", "x ?= y : z;">>))
            ELSE LET Push(br) ==
                         IF br.st # "ok" THEN br
                         ELSE parse_guard_branches(toks, br.i, Append(branches, br.node))
                 IN Bound(parse_rhs(toks, j), Push)

parse_guard(toks, i0) ==
    LET stmt_end == position(toks, i0, "Semicolon")
        i == skip_loc(toks, i0)
    IN
    IF stmt_end = 0
    THEN Err(WithHelp(DiagnosticError("unterminated guard statement", current_span(toks, i0)),
             <<"Druim", "expected", "a", "semicolon", ";", "to", "terminate", "this",
               "guard", "statement", ".", "Example", ":", "x ?= y;">>))
    ELSE IF i > Len(toks)
    THEN Err(WithHelp(DiagnosticError("invalid guard statement", current_span(toks, i)),
             <<"A", "guard", "statement", "must", "begin", "with", "an", "identifier", ".",
               "Example", ":", "x ?= y;">>))
    ELSE IF toks[i].kind # "Ident"
    THEN Err(WithHelp(DiagnosticError("invalid guard statement", TokSpan(i)),
             <<"Guard", "statements", "must", "begin", "with", "an", "identifier", ".",
               "Example", ":", "x ?= y;">>))
    ELSE LET name == toks[i].lexeme
             first == bump(toks, i + 1)
             bad == scan_for(toks, first, stmt_end, StatementOperators)
         IN
         IF peek_kind(toks, first) \in {"Semicolon", "Colon"}
         THEN Err(WithHelp(DiagnosticError("invalid guard statement", current_span(toks, first)),
                  <<"A", "guard", "statement", "requires", "a", "value", "after", "?=", ".",
                    "Did", "you", "mean", "to", "use", "an", "empty", "define", "?",
                    "Example", ":", "x =;">>))
         ELSE IF bad # 0
         THEN Err(WithHelp(DiagnosticError("invalid guard statement", TokSpan(bad)),
                  <<"Guard", "branches", "must", "be", "values", ",", "not", "statements", ".",
                    "Split", "this", "into", "separate", "statements", ".">>))
         ELSE LET Guard(bs) ==
                      IF bs.st # "ok" THEN bs
                      ELSE Ok(NodeGuard(name, bs.node), bump(toks, bs.i))
                  Fallbacks(b1) ==
                      IF b1.st # "ok" THEN b1
                      ELSE Bound(parse_guard_branches(toks, b1.i, <<b1.node>>), Guard)
              IN Bound(parse_rhs(toks, first), Fallbacks)

(***************************************************************************)
(* Statement dispatch, blocks and functions                                *)
(***************************************************************************)
\* the forward scan of parse_statement_entry: the parser that claims the
\* statement starting at the cursor
RECURSIVE statement_kind(_, _)
statement_kind(toks, j) ==
    IF j > Len(toks) THEN "call_statement"
    ELSE LET k == toks[j].kind
         IN CASE k = "KwRet" -> "ret"
              [] k = "Define" -> "define"
              [] k = "DefineEmpty" -> "define_empty"
              [] k = "Copy" -> "copy"
              [] k = "Bind" -> "bind"
              [] k = "Guard" -> "guard"
              [] k \in {"Semicolon", "BlockEnd", "FuncEnd"} -> "call_statement"
              [] OTHER -> statement_kind(toks, j + 1)

parse_statement_entry(toks, i) ==
    LET h == statement_kind(toks, i)
    IN CASE h = "ret" -> parse_ret(toks, i)
         [] h = "define" -> parse_define(toks, i)
         [] h = "define_empty" -> parse_define_empty(toks, i)
         [] h = "copy" -> parse_copy(toks, i)
         [] h = "bind" -> parse_bind(toks, i)
         [] h = "guard" -> parse_guard(toks, i)
         [] OTHER -> parse_call_statement(toks, i)

\* the statement `while` of parse_block; the result node is the node list
RECURSIVE parse_block_nodes(_, _, _)
parse_block_nodes(toks, i, ns) ==
    IF peek_kind(toks, i) = "BlockEnd" THEN Ok(ns, i)
    ELSE IF peek_kind(toks, i) = "BlockChain" THEN parse_block_nodes(toks, bump(toks, i), ns)
    ELSE LET Push(n) ==
                 IF n.st # "ok" THEN n
                 ELSE parse_block_nodes(toks, n.i, Append(ns, n.node))
         IN Bound(parse_statement_entry(toks, i), Push)

parse_block(toks, i0) ==
    LET i == bump(toks, i0)
    IN IF position(toks, i, "BlockEnd") = 0
       THEN Err(WithHelp(DiagnosticError("unterminated block structure", current_span(toks, i)),
                <<"Druim", "expected", "a", "closing", "block", "delimiter", "}:", ".">>))
       ELSE LET Block(ns) ==
                    IF ns.st # "ok" THEN ns
                    ELSE Ok(NodeBlock(ns.node), bump(toks, ns.i))
            IN Bound(parse_block_nodes(toks, i, <<>>), Block)

\* characters of the identifier lexemes of the model (a lexeme that is not
\* listed is a single character)
Chars(name) ==
    CASE name = "add_one" -> <<"a", "d", "d", "_", "o", "n", "e">>
      [] name = "f2" -> <<"f", "2">>
      [] name = "Foo" -> <<"F", "o", "o">>
      [] name = "_f" -> <<"_", "f">>
      [] name = "f_" -> <<"f", "_">>
      [] name = "f__g" -> <<"f", "_", "_", "g">>
      [] OTHER -> <<name>>

AsciiLowercase == {"a", "b", "c", "d", "e", "f", "g", "h", "i", "j", "k", "l", "m",
                   "n", "o", "p", "q", "r", "s", "t", "u", "v", "w", "x", "y", "z"}
AsciiDigit == {"0", "1", "2", "3", "4", "5", "6", "7", "8", "9"}

RECURSIVE snake_scan(_, _, _)
snake_scan(cs, k, prev_underscore) ==
    IF k > Len(cs) THEN TRUE
    ELSE IF cs[k] = "_" THEN (~prev_underscore /\ snake_scan(cs, k + 1, TRUE))
    ELSE IF cs[k] \in AsciiLowercase \cup AsciiDigit THEN snake_scan(cs, k + 1, FALSE)
    ELSE FALSE

is_snake_case(name) ==
    LET cs == Chars(name)
    IN /\ snake_scan(cs, 1, FALSE)
       /\ ~(Len(cs) > 0 /\ cs[1] = "_")
       /\ ~(Len(cs) > 0 /\ cs[Len(cs)] = "_")

\* the parameter `loop` of parse_func; the result node is the parameter list
RECURSIVE parse_params(_, _, _)
parse_params(toks, i, params) ==
    IF peek_kind(toks, i) = "KwLoc"
    THEN Err(WithHelp(DiagnosticError("invalid function parameter", current_span(toks, i)),
             <<"loc", "is", "not", "allowed", "in", "function", "parameter",
               "declarations", ".">>))
    ELSE IF i > Len(toks)
    THEN Err(WithHelp(DiagnosticError("invalid function parameter", current_span(toks, i)),
             <<"Druim", "expected", "a", "parameter", "name", ".">>))
    ELSE IF toks[i].kind # "Ident"
    THEN Err(WithHelp(DiagnosticError("invalid function parameter", TokSpan(i)),
             <<"Function", "parameters", "must", "begin", "with", "an", "identifier", ".",
               "Examples", ":", "x", ",", "x = 10">>))
    ELSE LET param_name == toks[i].lexeme
             has_default == peek_kind(toks, i + 1) = "Define"
             d == bump(toks, i + 1)
             Push(value) ==
                 IF value.st # "ok" THEN value
                 ELSE LET ps == Append(params, Param(param_name, has_default, value.node))
                          k == peek_kind(toks, value.i)
                      IN CASE k = "Comma" -> parse_params(toks, bump(toks, value.i), ps)
                           [] k = "FuncChain" -> Ok(ps, value.i)
                           [] OTHER ->
                                Err(WithHelp(DiagnosticError("invalid function parameter list",
                                                             current_span(toks, value.i)),
                                    <<"Parameters", "must", "be", "separated", "by", "commas",
                                      "and", "terminated", "with", ")(", ".">>))
         IN
         IF has_default /\ peek_kind(toks, d) \in {"Comma", "FuncChain"}
         THEN Err(WithHelp(DiagnosticError("invalid default parameter", current_span(toks, d)),
                  <<"Default", "parameters", "require", "a", "value", ".",
                    "Example", ":", "x = 10">>))
         ELSE Bound(IF has_default THEN parse_rhs(toks, d) ELSE Ok(NoNode, i + 1), Push)

\* the statement `while` of one body section; the result node is the node list
RECURSIVE parse_body_nodes(_, _, _)
parse_body_nodes(toks, i, ns) ==
    IF peek_kind(toks, i) \in {"FuncChain", "FuncEnd"} THEN Ok(ns, i)
    ELSE LET Push(n) ==
                 IF n.st # "ok" THEN n
                 ELSE parse_body_nodes(toks, n.i, Append(ns, n.node))
         IN Bound(parse_statement_entry(toks, i), Push)

\* the body `loop` of parse_func; the result node is the list of body blocks
RECURSIVE parse_bodies(_, _, _)
parse_bodies(toks, i, bodies) ==
    LET Push(ns) ==
            IF ns.st # "ok" THEN ns
            ELSE IF peek_kind(toks, ns.i) = "FuncChain"
            THEN parse_bodies(toks, bump(toks, ns.i), Append(bodies, NodeBlock(ns.node)))
            ELSE Ok(Append(bodies, NodeBlock(ns.node)), ns.i)
    IN Bound(parse_body_nodes(toks, i, <<>>), Push)

parse_func(toks, i0) ==
    LET i == bump(toks, i0)
    IN
    IF position(toks, i, "FuncEnd") = 0
    THEN Err(WithHelp(DiagnosticError("unterminated function structure", current_span(toks, i)),
             <<"Druim", "expected", "a", "closing", "function", "delimiter", "):", ".">>))
    ELSE IF i > Len(toks)
    THEN Err(WithHelp(DiagnosticError("invalid function structure", current_span(toks, i)),
             <<"Druim", "expected", "a", "function", "name", "after", "the", "fn",
               "keyword", ".">>))
    ELSE IF toks[i].kind # "Ident"
    THEN Err(WithHelp(DiagnosticError("invalid function structure", TokSpan(i)),
             <<"Druim", "expected", "a", "function", "name", "after", "the", "fn",
               "keyword", ".">>))
    ELSE IF ~is_snake_case(toks[i].lexeme)
    THEN Err(WithHelp(DiagnosticError("invalid function name", TokSpan(i)),
             <<"Function", "names", "in", "Druim", "must", "use", "snake_case",
               "(", "lowercase", "letters", "and", "underscores", ")", ".">>))
    ELSE IF peek_kind(toks, i + 1) # "FuncStart"
    THEN Err(WithHelp(DiagnosticError("invalid function structure", current_span(toks, i + 1)),
             <<"Druim", "expected", "a", "parameter", "block", "starting", "with", ":(",
               "after", "the", "function", "name", ".">>))
    ELSE LET name == toks[i].lexeme
             p == bump(toks, i + 1)
             chain == position(toks, p, "FuncChain")
         IN
         IF chain = 0
         THEN Panic("unreachable: FuncEnd existence was already verified")
         ELSE IF chain + 1 > Len(toks)
         THEN Panic("index out of bounds")
         ELSE IF toks[chain + 1].kind = "FuncEnd"
         THEN Err(WithHelp(DiagnosticError("incomplete function definition",
                                           current_span(toks, p)),
                  <<"Druim", "requires", "at", "least", "one", "function", "body", "before",
                    "the", "closing", "):", ".">>))
         ELSE LET Bodies(params) ==
                      LET Func(bodies) ==
                              IF bodies.st # "ok" THEN bodies
                              ELSE Ok(NodeFunc(name, params.node, bodies.node),
                                      bump(toks, bodies.i))
                      IN IF params.st # "ok" THEN params
                         ELSE Bound(parse_bodies(toks, bump(toks, params.i), <<>>), Func)
              IN Bound(IF peek_kind(toks, p) # "FuncChain"
                        THEN parse_params(toks, p, <<>>)
                        ELSE Ok(<<>>, p), Bodies)

\* the parser that parse_node runs at the cursor
node_kind(toks, i) ==
    CASE peek_kind(toks, i) = "BlockStart" -> "block"
      [] peek_kind(toks, i) = "KwFn" -> "func"
      [] OTHER -> statement_kind(toks, i)

parse_node(toks, i) ==
    CASE peek_kind(toks, i) = "BlockStart" -> parse_block(toks, i)
      [] peek_kind(toks, i) = "KwFn" -> parse_func(toks, i)
      [] OTHER -> parse_statement_entry(toks, i)

(***************************************************************************)
(* Inputs: token sequences as the lexer hands them over, each ending in    *)
(* the end marker                                                          *)
(***************************************************************************)
MaxLen == 5
MaxBranches == 3
MaxValueLen == 3
MaxExprLen == 4

a == Ident("a")
b == Ident("b")
one == NumLit("1")
two == NumLit("2")
TDefine == Token("Define", "=")
TDefineEmpty == Token("DefineEmpty", "=;")
TCopy == Token("Copy", ":=")
TBind == Token("Bind", ":>")
TGuard == Token("Guard", "?=")
TColon == Token("Colon", ":")
TRet == Token("KwRet", "ret")
TLoc == Token("KwLoc", "loc")
TFn == Token("KwFn", "fn")
TVoid == Token("KwVoid", "void")
TLParen == Token("LParen", "(")
TRParen == Token("RParen", ")")
TComma == Token("Comma", ",")
TBlockStart == Token("BlockStart", ":{")
TBlockEnd == Token("BlockEnd", "}:")
TBlockChain == Token("BlockChain", "}{")
TFuncStart == Token("FuncStart", ":(")
TFuncEnd == Token("FuncEnd", "):")
TFuncChain == Token("FuncChain", ")(")
TAdd == Token("Add", "+")
TSub == Token("Sub", "-")
TMul == Token("Mul", "*")
TNot == Token("Not", "!?")

InfixTokens ==
    {Token("Mul", "*"), Token("Div", "/"), Token("Mod", "%"), Token("Add", "+"),
     Token("Sub", "-"), Token("Lt", "<"), Token("Le", "<="), Token("Gt", ">"),
     Token("Ge", ">="), Token("Eq", "=="), Token("Ne", "!="), Token("And", "&?"),
     Token("Or", "|?"), Token("Has", "::"), Token("Present", ":?"), Token("Pipe", "|>")}

SeqsUpTo(S, n) == UNION {[1..k -> S] : k \in 0..n}

WithEof(ts) == ts \o <<Eof>>

\* inputs quoted by the specification, the tests and the comments of the parser
ExampleInputs ==
    {<<Ident("x"), TGuard, Ident("y"), TColon, Ident("z"), TColon, Ident("v"), Semi>>,
     <<Ident("x"), TGuard, Ident("y"), Semi>>,
     <<Ident("x"), TGuard, TVoid, Semi>>,
     <<a, TGuard, Semi>>,
     <<TGuard, a, Semi>>,
     <<TFn, Ident("f"), TFuncStart, Ident("x"), TFuncEnd>>,
     <<TFn, Ident("f"), TFuncStart, Ident("x"), TFuncChain, TFuncEnd>>,
     <<TFn, Ident("f"), TFuncStart, Ident("x"), TFuncChain, TRet, one, Semi, TFuncEnd>>,
     <<TFn, Ident("add_one"), TFuncStart, Ident("x"), TComma, Ident("y"), TDefine, two,
       TFuncChain, TRet, Ident("x"), TAdd, one, Semi, TFuncChain, TRet, Semi, TFuncEnd>>,
     <<TFn, Ident("Foo"), TFuncStart, TFuncChain, TRet, Semi, TFuncEnd>>,
     <<a, TDefine, b, TDefine, Ident("c"), Semi>>,
     <<a, TDefineEmpty, TDefine, b, Semi>>,
     <<TLParen, a, TRParen, TDefineEmpty>>,
     <<TLParen, Ident("x"), TRParen, TDefine, one, Semi>>,
     <<a, b, Ident("c"), TDefineEmpty>>,
     <<Ident("x"), TDefine, NumLit("42"), Semi>>,
     <<Ident("x"), TDefine, one>>,
     <<Ident("x"), TDefine, Ident("y"), Semi>>,
     <<a, TCopy, b, Semi>>,
     <<a, TBind, b, Semi>>,
     <<TLoc, a, TCopy, b, Semi>>,
     <<TCopy, a, Semi>>,
     <<a, TCopy, b, Ident("c"), TRet, Semi>>,
     <<a, TBind, b, Ident("c"), TRet, Semi>>,
     <<a, TCopy, b, TRet, Semi>>,
     <<TRet, NumLit("42"), Semi>>,
     <<TRet, Semi>>,
     <<Ident("do_work"), TLParen, TRParen, Semi>>,
     <<TBlockStart, a, TDefine, one, Semi, TBlockChain, b, TDefineEmpty, TBlockEnd>>,
     <<TBlockStart, a, TDefine, one, TBlockEnd, Semi>>,
     <<TBlockStart, a, TDefine, one, Semi>>}

SoupAlphabet == {a, one, TDefine, TDefineEmpty, TCopy, TRet, Semi, TBlockEnd}
SoupInputs == SeqsUpTo(SoupAlphabet, MaxLen)

\* name ?= b1 : b2 : ... : bn ;
Branches == {<<a>>, <<one>>, <<TVoid>>, <<Token("TextLit", "s")>>}
RECURSIVE GuardTails(_)
GuardTails(n) ==
    IF n = 0 THEN {<<Semi>>}
    ELSE {<<TColon>> \o br \o t : br \in Branches, t \in GuardTails(n - 1)}
GuardInputs ==
    {<<Ident("x"), TGuard>> \o br \o t :
        br \in Branches, t \in UNION {GuardTails(n) : n \in 0..(MaxBranches - 1)}}

\* a candidate value in every position whose value parse_rhs parses
ValueAlphabet == {a, one, TLParen, TRParen, TAdd}
Values == SeqsUpTo(ValueAlphabet, MaxValueLen) \ {<<>>}
ValueInputs ==
    UNION {{<<Ident("x"), TDefine>> \o v \o <<Semi>>,
            <<TRet>> \o v \o <<Semi>>,
            <<Ident("x"), TGuard>> \o v \o <<Semi>>,
            <<Ident("x"), TGuard, one, TColon>> \o v \o <<Semi>>,
            <<Ident("x"), TDefine, Ident("f"), TLParen>> \o v \o <<TRParen, Semi>>,
            <<TFn, Ident("f"), TFuncStart, Ident("x"), TDefine>> \o v
                \o <<TFuncChain, TRet, Semi, TFuncEnd>>} : v \in Values}

\* statements with and without their terminator, inside and after a block or
\* a function body
Fragments ==
    {<<>>, <<Semi>>,
     <<a, TDefine, one>>, <<a, TDefine, one, Semi>>,
     <<a, TDefineEmpty>>,
     <<a, TCopy, b>>, <<a, TCopy, b, Semi>>,
     <<a, TBind, b>>, <<a, TBind, b, Semi>>,
     <<a, TGuard, one>>, <<a, TGuard, one, Semi>>,
     <<TRet>>, <<TRet, Semi>>, <<TRet, one, Semi>>,
     <<a, TLParen, TRParen>>, <<a, TLParen, TRParen, Semi>>}
BlockInputs ==
    {<<TBlockStart>> \o f1 \o <<TBlockEnd>> \o f2 : f1 \in Fragments, f2 \in Fragments}
    \cup
    {<<TFn, Ident("f"), TFuncStart, TFuncChain>> \o f1 \o <<TFuncEnd>> \o f2 :
        f1 \in Fragments, f2 \in Fragments}

\* statements that are well formed on their own, and a block holding one of
\* them followed by a block that holds another:  :{ S1 :{ S2 }: }:
WellFormedStatements ==
    {<<a, TDefine, one, Semi>>, <<a, TDefineEmpty>>, <<a, TCopy, b, Semi>>,
     <<a, TBind, b, Semi>>, <<a, TGuard, one, Semi>>, <<TRet, Semi>>, <<TRet, one, Semi>>}
NestedBlock(s1, s2) ==
    <<TBlockStart>> \o s1 \o <<TBlockStart>> \o s2 \o <<TBlockEnd, TBlockEnd>>
NestedBlockInputs ==
    {NestedBlock(s1, s2) : s1 \in WellFormedStatements, s2 \in WellFormedStatements}

\* statements with a text literal where an identifier or a value belongs
TText == Token("TextLit", "s")
TextInputs ==
    {<<TText, TDefine, one, Semi>>, <<TText, TDefineEmpty>>, <<a, TCopy, TText, Semi>>,
     <<a, TBind, TText, Semi>>, <<TText, TGuard, one, Semi>>, <<TText, Semi>>,
     <<a, TDefine, TText, Semi>>, <<a, TDefine, TText, TText, Semi>>,
     <<TFn, TText>>, <<TRet, TText, Semi>>, <<TRet, TAdd, TText, Semi>>}

Inputs ==
    {WithEof(ts) : ts \in ExampleInputs \cup SoupInputs \cup GuardInputs
                          \cup ValueInputs \cup BlockInputs \cup NestedBlockInputs
                          \cup TextInputs}

\* expressions handed to parse_expr
ExprAtoms == {a, one}
ExprAlphabet == {a, one, TAdd, TMul, TSub, TNot, TLParen, TRParen}
\* a prefix operator, its operand, then an infix operator of the table and
\* its right operand: -a op b, !?a op b, -a(b)
PrefixExprInputs ==
    {<<p, x, op, y>> : p \in {TSub, TNot}, x \in ExprAtoms, y \in ExprAtoms,
                       op \in InfixTokens}
    \cup {<<p, x, TLParen, y, TRParen>> : p \in {TSub, TNot}, x \in ExprAtoms,
                                           y \in ExprAtoms}
ExprInputs ==
    {WithEof(ts) : ts \in
        {<<x, op1, y, op2, z>> : x \in ExprAtoms, y \in ExprAtoms, z \in ExprAtoms,
                                 op1 \in InfixTokens, op2 \in InfixTokens}
        \cup SeqsUpTo(ExprAlphabet, MaxExprLen)
        \cup {<<one, TAdd, Ident("f"), TLParen, two, TRParen>>,
              <<Ident("f"), TLParen, two, TRParen>>}
        \cup PrefixExprInputs}

(***************************************************************************)
(* The parser as a state machine: parse_program's loop, one action per     *)
(* parser that parse_node dispatches to                                    *)
(***************************************************************************)
Running == [st |-> "running"]
Done == [st |-> "ok"]

Init ==
    /\ tokens \in Inputs
    /\ index = 1
    /\ nodes = <<>>
    /\ result = Running
    /\ handler = "none"
    /\ stmt_start = 0
    /\ src = <<>>
    /\ pos = 0
    /\ diagnostic = NoDiagnostic
    /\ env = NoEnv
    /\ calls = <<>>

\* parse_program's loop pushing the node without the cursor having moved
ApplyWithoutAdvance(h, r) ==
    /\ handler' = h
    /\ stmt_start' = index
    /\ tokens' = tokens
    /\ UNCHANGED <<src, pos, diagnostic, env, calls>>
    /\ IF r.st = "ok"
       THEN /\ nodes' = Append(nodes, r.node)
            /\ index' = index
            /\ result' = result
       ELSE /\ nodes' = nodes
            /\ index' = index
            /\ result' = r

\* parse_program after `self.parse_node()?` returned r: push the node and go
\* on, or return the error (a panic unwinds)
Apply(h, r) ==
    /\ handler' = h
    /\ stmt_start' = index
    /\ tokens' = tokens
    /\ UNCHANGED <<src, pos, diagnostic, env, calls>>
    /\ IF r.st = "ok"
       THEN /\ nodes' = Append(nodes, r.node)
            /\ index' = r.i
            /\ result' = result
       ELSE /\ nodes' = nodes
            /\ index' = index
            /\ result' = r

Dispatch(h) ==
    /\ result.st = "running"
    /\ peek_kind(tokens, index) # "Eof"
    /\ node_kind(tokens, index) = h

ParseBlock == Dispatch("block") /\ Apply("block", parse_block(tokens, index))
ParseFunc == Dispatch("func") /\ Apply("func", parse_func(tokens, index))
ParseRet == Dispatch("ret") /\ Apply("ret", parse_ret(tokens, index))
ParseDefine == Dispatch("define") /\ Apply("define", parse_define(tokens, index))
ParseDefineEmpty ==
    Dispatch("define_empty") /\ Apply("define_empty", parse_define_empty(tokens, index))
ParseCopy == Dispatch("copy") /\ Apply("copy", parse_copy(tokens, index))
ParseBind == Dispatch("bind") /\ Apply("bind", parse_bind(tokens, index))
ParseGuard == Dispatch("guard") /\ Apply("guard", parse_guard(tokens, index))
ParseCallStatement ==
    Dispatch("call_statement")
    /\ Apply("call_statement", parse_call_statement(tokens, index))

\* the loop ends at the end marker: Ok(Program { nodes })
Finish ==
    /\ result.st = "running"
    /\ peek_kind(tokens, index) = "Eof"
    /\ result' = Done
    /\ UNCHANGED <<tokens, index, nodes, handler, stmt_start, src, pos, diagnostic, env, calls>>

Next ==
    \/ ParseBlock
    \/ ParseFunc
    \/ ParseRet
    \/ ParseDefine
    \/ ParseDefineEmpty
    \/ ParseCopy
    \/ ParseBind
    \/ ParseGuard
    \/ ParseCallStatement
    \/ Finish

Spec == Init /\ [][Next]_vars

\* parse_program runs to completion: its loop keeps taking the next iteration
SpecLive == Init /\ [][Next]_vars /\ WF_vars(Next)

\* parse_expr applied to an expression
InitExpr ==
    /\ tokens \in ExprInputs
    /\ index = 1
    /\ nodes = <<>>
    /\ result = Running
    /\ handler = "none"
    /\ stmt_start = 0
    /\ src = <<>>
    /\ pos = 0
    /\ diagnostic = NoDiagnostic
    /\ env = NoEnv
    /\ calls = <<>>

ParseExpr ==
    /\ result.st = "running"
    /\ LET r == parse_expr(tokens, index)
       IN /\ handler' = "expr"
          /\ stmt_start' = index
          /\ tokens' = tokens
          /\ UNCHANGED <<src, pos, diagnostic, env, calls>>
          /\ IF r.st = "ok"
             THEN nodes' = <<r.node>> /\ index' = r.i /\ result' = Done
             ELSE nodes' = nodes /\ index' = index /\ result' = r

NextExpr == ParseExpr

SpecExpr == InitExpr /\ [][NextExpr]_vars

(***************************************************************************)
(* Lexer (src/src/compiler/lexer.rs).  A source is a sequence of           *)
(* characters, each a one-character string but for "U+00E9", which stands  *)
(* for a character of two bytes; `pos` is the lexer's byte offset.  A      *)
(* lexed token is [kind, lexeme, pos] with the lexeme a character sequence.*)
(***************************************************************************)
AsciiUppercase == {"A", "B", "C", "D", "E", "F", "G", "H", "I", "J", "K", "L", "M",
                   "N", "O", "P", "Q", "R", "S", "T", "U", "V", "W", "X", "Y", "Z"}
AsciiAlphabetic == AsciiLowercase \cup AsciiUppercase
IdentContinue == AsciiAlphabetic \cup AsciiDigit \cup {"_"}
Whitespace == {" ", "\n", "\t"}
Quote == "\""

\* char::len_utf8
len_utf8(c) == IF c = "U+00E9" THEN 2 ELSE 1

\* byte offset of the k-th character (of the end of the source for k = Len + 1)
RECURSIVE byte_offset(_, _)
byte_offset(s, k) == IF k <= 1 THEN 0 ELSE byte_offset(s, k - 1) + len_utf8(s[k - 1])

\* src.len()
src_len(s) == byte_offset(s, Len(s) + 1)

\* the character that starts at byte offset p
char_index(s, p) == CHOOSE k \in 1..(Len(s) + 1) : byte_offset(s, k) = p

LexToken(kind, lexeme, p) == [kind |-> kind, lexeme |-> lexeme, pos |-> p]
LexOk(t, k) == [st |-> "ok", tok |-> t, k |-> k]
UnexpectedChar(ch, p) == [st |-> "lexerr", error |-> "UnexpectedChar", ch |-> ch, pos |-> p]
UnterminatedText(p) == [st |-> "lexerr", error |-> "UnterminatedText", ch |-> "", pos |-> p]

\* read_while with the condition given as a character class: the index after
\* the run that starts at k
RECURSIVE read_while(_, _, _)
read_while(s, k, class) ==
    IF k <= Len(s) /\ s[k] \in class THEN read_while(s, k + 1, class) ELSE k

skip_whitespace(s, k) == read_while(s, k, Whitespace)

\* s[from..to) as the lexeme
Slice(s, from, to) == SubSeq(s, from, to - 1)

\* lex_number without the digit-leading identifier: the digit run is always a
\* number
lex_number_digits_only(s, k) ==
    LET digits == read_while(s, k, AsciiDigit)
    IN IF digits <= Len(s) /\ s[digits] = "."
       THEN IF digits + 1 > Len(s) \/ s[digits + 1] \notin AsciiDigit
            THEN UnexpectedChar(".", byte_offset(s, digits + 1) - 1)
            ELSE LexOk(LexToken("DecLit",
                                Slice(s, k, read_while(s, digits + 1, AsciiDigit)),
                                byte_offset(s, k)),
                       read_while(s, digits + 1, AsciiDigit))
       ELSE LexOk(LexToken("NumLit", Slice(s, k, digits), byte_offset(s, k)), digits)

\* the digit-starting branch of tokenize, at character k
lex_number(s, k) ==
    LET digits == read_while(s, k, AsciiDigit)
    IN IF digits <= Len(s) /\ s[digits] = "."
       THEN IF digits + 1 > Len(s) \/ s[digits + 1] \notin AsciiDigit
            THEN UnexpectedChar(".", byte_offset(s, digits + 1) - 1)
            ELSE LexOk(LexToken("DecLit",
                                Slice(s, k, read_while(s, digits + 1, AsciiDigit)),
                                byte_offset(s, k)),
                       read_while(s, digits + 1, AsciiDigit))
       ELSE IF digits <= Len(s) /\ s[digits] \in AsciiAlphabetic \cup {"_"}
       THEN LexOk(LexToken("Ident", Slice(s, k, read_while(s, digits, IdentContinue)),
                           byte_offset(s, k)),
                  read_while(s, digits, IdentContinue))
       ELSE LexOk(LexToken("NumLit", Slice(s, k, digits), byte_offset(s, k)), digits)

\* the keywords the lexer knows
keyword_kind(text) ==
    CASE text = <<"n", "u", "m">> -> "KwNum"
      [] text = <<"d", "e", "c">> -> "KwDec"
      [] text = <<"f", "l", "a", "g">> -> "KwFlag"
      [] text = <<"t", "e", "x", "t">> -> "KwText"
      [] text = <<"e", "m", "p">> -> "KwEmp"
      [] OTHER -> "Ident"

\* the identifier-or-keyword branch
lex_word(s, k) ==
    LET e == read_while(s, k, IdentContinue)
    IN LexOk(LexToken(keyword_kind(Slice(s, k, e)), Slice(s, k, e), byte_offset(s, k)), e)

\* the text-literal branch with read_text: the lexeme is the text between the
\* quotes
lex_text(s, k) ==
    LET close == read_while(s, k + 1, {c \in {s[j] : j \in 1..Len(s)} : c # Quote})
    IN IF close > Len(s)
       THEN UnterminatedText(byte_offset(s, k))
       ELSE LexOk(LexToken("TextLit", Slice(s, k + 1, close), byte_offset(s, k)), close + 1)

\* the match_str chain in its order, every operator two characters long
TwoCharOperators ==
    << <<":", "[", "BlockExprStart">>, <<"]", ":", "BlockExprEnd">>,
       <<"]", "[", "BlockExprChain">>,
       <<":", "{", "BlockStmtStart">>, <<"}", ":", "BlockStmtEnd">>,
       <<"}", "{", "BlockStmtChain">>,
       <<":", "(", "BlockFuncStart">>, <<")", ":", "BlockFuncEnd">>,
       <<")", "(", "BlockFuncChain">>,
       <<":", "<", "BlockArrayStart">>, <<">", ":", "BlockArrayEnd">>,
       <<">", "<", "BlockArrayChain">>,
       <<"?", "=", "Guard">>, <<"=", ";", "DefineEmpty">>, <<"|", ">", "Pipe">>,
       <<"=", "=", "Eq">>, <<"!", "=", "Ne">>, <<"<", "=", "Le">>, <<">", "=", "Ge">>,
       <<"&", "?", "And">>, <<"|", "?", "Or">>, <<"!", "?", "Not">>,
       <<"-", ">", "ArrowR">>, <<"<", "-", "ArrowL">>,
       <<":", ":", "Scope">>, <<":", "=", "Bind">>, <<":", "?", "Present">>,
       <<":", ">", "Cast">> >>

\* match_str: the source at k starts with the two characters of the operator
match_str(s, k, op) == k + 1 <= Len(s) /\ s[k] = op[1] /\ s[k + 1] = op[2]

\* index of the first operator of the chain that matches at k, 0 when none does
RECURSIVE first_match(_, _, _)
first_match(s, k, n) ==
    IF n > Len(TwoCharOperators) THEN 0
    ELSE IF match_str(s, k, TwoCharOperators[n]) THEN n
    ELSE first_match(s, k, n + 1)

\* the multi-character operators and the single `:`
lex_operator(s, k) ==
    LET n == first_match(s, k, 1)
    IN IF n # 0
       THEN LexOk(LexToken(TwoCharOperators[n][3], Slice(s, k, k + 2), byte_offset(s, k)),
                  k + 2)
       ELSE LexOk(LexToken("Colon", <<":">>, byte_offset(s, k)), k + 1)

single_char_kind(ch) ==
    CASE ch = "=" -> "Define"
      [] ch = "+" -> "Add"
      [] ch = "-" -> "Sub"
      [] ch = "*" -> "Mul"
      [] ch = "/" -> "Div"
      [] ch = "%" -> "Mod"
      [] ch = ">" -> "Gt"
      [] ch = "<" -> "Lt"
      [] ch = "(" -> "LParen"
      [] ch = ")" -> "RParen"
      [] ch = "," -> "Comma"
      [] ch = ";" -> "Semicolon"
      [] OTHER -> "None"

\* single-character operators and punctuation; anything else is an error
lex_single(s, k) ==
    IF single_char_kind(s[k]) = "None"
    THEN UnexpectedChar(s[k], byte_offset(s, k))
    ELSE LexOk(LexToken(single_char_kind(s[k]), <<s[k]>>, byte_offset(s, k)), k + 1)

\* the branch of the loop body that the character after the whitespace takes
lex_branch(s, p) ==
    LET k == skip_whitespace(s, char_index(s, p))
    IN IF k > Len(s) THEN "eof"
       ELSE IF s[k] \in AsciiDigit THEN "number"
       ELSE IF s[k] \in AsciiAlphabetic \cup {"_"} THEN "word"
       ELSE IF s[k] = Quote THEN "text"
       ELSE IF first_match(s, k, 1) # 0 \/ s[k] = ":" THEN "operator"
       ELSE "single"

\* sources
MaxSrcLen == 4
SourceAlphabet == {"1", "a", "_", ".", " ", Quote, "=", ":", "U+00E9"}
Chs(word) ==
    CASE word = "9lives" -> <<"9", "l", "i", "v", "e", "s">>
      [] word = "123_456" -> <<"1", "2", "3", "_", "4", "5", "6">>
      [] word = "x ?= 3.14;" -> <<"x", " ", "?", "=", " ", "3", ".", "1", "4", ";">>
      [] word = "text emp" -> <<"t", "e", "x", "t", " ", "e", "m", "p">>
      [] word = "a+(b)" -> <<"a", "+", "(", "b", ")">>
      [] OTHER -> <<>>
ExampleSources ==
    {Chs("9lives"), Chs("123_456"), Chs("x ?= 3.14;"), Chs("text emp"), Chs("a+(b)"),
     <<"1", "a">>, <<"1">>, <<"1", "2", "3">>, <<"0", "0", "0">>,
     <<".", "5">>, <<"1", ".">>, <<"1", ".", ".", "2">>}
Sources == SeqsUpTo(SourceAlphabet, MaxSrcLen) \cup ExampleSources

InitLex ==
    /\ src \in Sources
    /\ pos = 0
    /\ diagnostic = NoDiagnostic
    /\ env = NoEnv
    /\ calls = <<>>
    /\ tokens = <<>>
    /\ index = 1
    /\ nodes = <<>>
    /\ result = Running
    /\ handler = "none"
    /\ stmt_start = 0

\* one iteration of tokenize's loop that took branch h and got r: push the
\* token and go on, or return the error
LexApply(h, r) ==
    /\ handler' = h
    /\ IF r.st = "ok"
       THEN /\ tokens' = Append(tokens, r.tok)
            /\ pos' = byte_offset(src, r.k)
            /\ result' = result
       ELSE /\ tokens' = tokens
            /\ pos' = pos
            /\ result' = r
    /\ UNCHANGED <<src, index, nodes, stmt_start, diagnostic, env, calls>>

LexAt(h) == result.st = "running" /\ lex_branch(src, pos) = h

\* where the token starts: the character after the whitespace
TokenStart == skip_whitespace(src, char_index(src, pos))

LexNumber == LexAt("number") /\ LexApply("number", lex_number(src, TokenStart))
LexWord == LexAt("word") /\ LexApply("word", lex_word(src, TokenStart))
LexText == LexAt("text") /\ LexApply("text", lex_text(src, TokenStart))
LexOperator == LexAt("operator") /\ LexApply("operator", lex_operator(src, TokenStart))
LexSingle == LexAt("single") /\ LexApply("single", lex_single(src, TokenStart))

\* LexEof with the end marker placed where the last token ended
LexEofBeforeWhitespace ==
    /\ LexAt("eof")
    /\ handler' = "eof"
    /\ tokens' = Append(tokens, LexToken("Eof", <<>>, pos))
    /\ pos' = byte_offset(src, TokenStart)
    /\ result' = Done
    /\ UNCHANGED <<src, index, nodes, stmt_start, diagnostic, env, calls>>

\* the loop ends at the end of the source: push the end marker, Ok(tokens)
LexEof ==
    /\ LexAt("eof")
    /\ handler' = "eof"
    /\ tokens' = Append(tokens, LexToken("Eof", <<>>, byte_offset(src, TokenStart)))
    /\ pos' = byte_offset(src, TokenStart)
    /\ result' = Done
    /\ UNCHANGED <<src, index, nodes, stmt_start, diagnostic, env, calls>>

NextLex ==
    \/ LexNumber
    \/ LexWord
    \/ LexText
    \/ LexOperator
    \/ LexSingle
    \/ LexEof

SpecLex == InitLex /\ [][NextLex]_vars

(***************************************************************************)
(* Source and the renderer (src/src/compiler/error.rs, diagnostic.rs).     *)
(* A source text is a sequence of characters as in the lexer; offsets,     *)
(* columns and lengths are in bytes.  Rendered output is a sequence of     *)
(* lines, each a sequence of characters with a message, label or help text *)
(* as one element.                                                         *)
(***************************************************************************)
\* Source::new: the byte offsets at which the lines start
RECURSIVE line_starts_from(_, _)
line_starts_from(text, k) ==
    IF k > Len(text) THEN <<>>
    ELSE IF text[k] = "\n"
         THEN <<byte_offset(text, k) + 1>> \o line_starts_from(text, k + 1)
         ELSE line_starts_from(text, k + 1)

SourceNew(text) == [text |-> text, line_starts |-> <<0>> \o line_starts_from(text, 1)]

\* slice::binary_search over the 0-based indices lo..hi-1 of a sorted
\* sequence: Ok(i) where the value is, Err(i) where it would be inserted
RECURSIVE binary_search(_, _, _, _)
binary_search(xs, x, lo, hi) ==
    IF lo >= hi THEN [ok |-> FALSE, i |-> lo]
    ELSE LET mid == lo + ((hi - lo) \div 2)
         IN IF xs[mid + 1] = x THEN [ok |-> TRUE, i |-> mid]
            ELSE IF xs[mid + 1] < x THEN binary_search(xs, x, mid + 1, hi)
            ELSE binary_search(xs, x, lo, mid)

LineCol(line, col) == [st |-> "line_col", line |-> line, col |-> col]
Overflow == [st |-> "panic", why |-> "attempt to subtract with overflow"]

\* line_col where an offset found in the index is given to the line before
line_col_previous_line(source, p) ==
    LET found == binary_search(source.line_starts, p, 0, Len(source.line_starts))
        line == IF found.ok /\ found.i = 0 THEN 0 ELSE found.i - 1
    IN IF line < 0 \/ p < source.line_starts[line + 1]
       THEN Overflow
       ELSE LineCol(line + 1, (p - source.line_starts[line + 1]) + 1)

\* Source::line_col
line_col(source, p) ==
    LET found == binary_search(source.line_starts, p, 0, Len(source.line_starts))
        line == IF found.ok THEN found.i ELSE found.i - 1
    IN IF line < 0 \/ p < source.line_starts[line + 1]
       THEN Overflow
       ELSE LineCol(line + 1, (p - source.line_starts[line + 1]) + 1)

\* str::trim_end_matches('\n')
RECURSIVE trim_end_newlines(_)
trim_end_newlines(chars) ==
    IF chars # <<>> /\ chars[Len(chars)] = "\n"
    THEN trim_end_newlines(SubSeq(chars, 1, Len(chars) - 1))
    ELSE chars

\* Source::line_text, for a 1-based line of the source
line_text(source, line) ==
    LET start == source.line_starts[line]
        end == IF line + 1 <= Len(source.line_starts)
               THEN source.line_starts[line + 1]
               ELSE src_len(source.text)
    IN trim_end_newlines(Slice(source.text, char_index(source.text, start),
                               char_index(source.text, end)))

\* Source::is_newline_at: the byte at the offset is a newline
is_newline_at(source, p) ==
    \E k \in 1..Len(source.text) :
        byte_offset(source.text, k) = p /\ source.text[k] = "\n"

saturating_sub(lhs, rhs) == IF lhs >= rhs THEN lhs - rhs ELSE 0
min(lhs, rhs) == IF lhs <= rhs THEN lhs ELSE rhs
max(lhs, rhs) == IF lhs >= rhs THEN lhs ELSE rhs

\* format!("{}", n) for an unsigned number
RECURSIVE Decimal(_)
Decimal(n) ==
    IF n < 10 THEN <<CHOOSE d \in AsciiDigit :
                        d = <<"0", "1", "2", "3", "4", "5", "6", "7", "8", "9">>[n + 1]>>
    ELSE Decimal(n \div 10) \o Decimal(n % 10)

\* str::repeat, for a single character
repeat(ch, n) == [i \in 1..n |-> ch]

\* format!("{:>width$}", text): right-aligned in the width
pad_left(chars, width) == repeat(" ", saturating_sub(width, Len(chars))) \o chars

\* Span { start, end } in bytes
ByteSpan(start, end) == [start |-> start, end |-> end]

\* the gutter of a line of the block: format!("{:>width$} | ", text)
gutter(chars, width) == pad_left(chars, width) \o <<" ", "|", " ">>

\* the caret line that render_span_block writes for these columns
caret_line(gutter_width, start_col, width) ==
    gutter(<<>>, gutter_width) \o repeat(" ", start_col) \o repeat("^", width)

\* span_block_at without the least width of one caret
span_block_at_unclamped(source, span, at) ==
    LET text == line_text(source, at.line)
        gutter_width == Len(Decimal(at.line))
        line_len == src_len(text)
        start_col == IF is_newline_at(source, span.start)
                     THEN line_len
                     ELSE min(saturating_sub(at.col, 1), line_len)
        width == min(saturating_sub(span.end, span.start),
                     saturating_sub(line_len, start_col))
    IN << <<" ", "-", "-", ">", " ", "l", "i", "n", "e", " ">> \o Decimal(at.line)
             \o <<",", " ", "c", "o", "l", "u", "m", "n", " ">> \o Decimal(at.col),
          pad_left(<<>>, gutter_width) \o <<" ", "|">>,
          gutter(Decimal(at.line), gutter_width) \o text,
          caret_line(gutter_width, start_col, width) >>

\* render_span_block applied to the line and column of the start of the span:
\* the arrow line, the empty gutter line, the source line and the caret line
span_block_at(source, span, at) ==
    LET text == line_text(source, at.line)
        gutter_width == Len(Decimal(at.line))
        line_len == src_len(text)
        start_col == IF is_newline_at(source, span.start)
                     THEN line_len
                     ELSE min(saturating_sub(at.col, 1), line_len)
        width == max(min(saturating_sub(span.end, span.start),
                         saturating_sub(line_len, start_col)), 1)
    IN << <<" ", "-", "-", ">", " ", "l", "i", "n", "e", " ">> \o Decimal(at.line)
             \o <<",", " ", "c", "o", "l", "u", "m", "n", " ">> \o Decimal(at.col),
          pad_left(<<>>, gutter_width) \o <<" ", "|">>,
          gutter(Decimal(at.line), gutter_width) \o text,
          caret_line(gutter_width, start_col, width) >>

\* render_span_block: the lines it appends to the output
render_span_block(source, span) ==
    LET Block(at) == span_block_at(source, span, at)
    IN Bound(line_col(source, span.start), Block)

\* the column render_secondary_labels computes for the first caret
label_start_col(source, primary_span, at) ==
    LET line_len == src_len(line_text(source, at.line))
    IN IF is_newline_at(source, primary_span.start)
       THEN line_len
       ELSE min(saturating_sub(at.col, 1), saturating_sub(line_len, 1))

\* the line of one secondary label: dashes that end before the first caret,
\* at most 8, then the label
label_line(gutter_width, start_col, label) ==
    gutter(<<>>, gutter_width)
        \o repeat(" ", start_col - min(start_col, 8))
        \o repeat("-", min(start_col, 8))
        \o <<" ", label>>

RECURSIVE label_lines(_, _, _)
label_lines(gutter_width, start_col, secondary) ==
    IF secondary = <<>> THEN <<>>
    ELSE (IF start_col = 0 THEN <<>>
          ELSE <<label_line(gutter_width, start_col, secondary[1][2])>>)
         \o label_lines(gutter_width, start_col, Tail(secondary))

\* render_secondary_labels: the lines it appends to the output
render_secondary_labels(source, primary_span, secondary) ==
    LET Labels(at) == label_lines(Len(Decimal(at.line)),
                                  label_start_col(source, primary_span, at), secondary)
    IN IF secondary = <<>> THEN <<>>
       ELSE Bound(line_col(source, primary_span.start), Labels)

severity_name(severity) ==
    CASE severity = "Error" -> "error"
      [] severity = "Warning" -> "warning"
      [] severity = "Note" -> "note"
      [] severity = "Help" -> "help"

\* the line "{severity}: {message}"
header(severity, message) == <<severity_name(severity), ":", " ", message>>

\* render_note: the header, and the source block of a note that has a span
render_note(note, source) ==
    <<header(note.severity, note.message)>>
        \o (IF note.span = <<>> THEN <<>> ELSE render_span_block(source, note.span[1]))

RECURSIVE render_notes(_, _)
render_notes(notes, source) ==
    IF notes = <<>> THEN <<>>
    ELSE << <<>> >> \o render_note(notes[1], source) \o render_notes(Tail(notes), source)

\* render with the primary block drawn at the column of the secondary labels
\* when there are any
render_shifted(d, source) ==
    <<header(d.severity, d.message)>>
        \o (IF d.severity \in {"Note", "Help"}
            THEN IF d.span.start = d.span.end THEN <<>>
                 ELSE render_span_block(source, d.span)
            ELSE (IF d.secondary = <<>>
                  THEN render_span_block(source, d.span)
                  ELSE render_span_block(source,
                                         ByteSpan(saturating_sub(d.span.start, 1), d.span.end)))
                    \o render_secondary_labels(source, d.span, d.secondary)
                    \o render_notes(d.notes, source)
                    \o (IF d.help = <<>> THEN <<>>
                        ELSE << <<>>, <<"help", ":", " ", d.help[1]>> >>))

\* render: the lines of the rendered diagnostic
render(d, source) ==
    <<header(d.severity, d.message)>>
        \o (IF d.severity \in {"Note", "Help"}
            THEN IF d.span.start = d.span.end THEN <<>>
                 ELSE render_span_block(source, d.span)
            ELSE render_span_block(source, d.span)
                    \o render_secondary_labels(source, d.span, d.secondary)
                    \o render_notes(d.notes, source)
                    \o (IF d.help = <<>> THEN <<>>
                        ELSE << <<>>, <<"help", ":", " ", d.help[1]>> >>))

\* texts and diagnostics
MaxTextLen == 3
TextAlphabet == {"a", "\n"}
ManyLines == [i \in 1..11 |-> IF i = 11 THEN "a" ELSE "\n"]
ExampleTexts ==
    {ManyLines,
     <<"l", "e", "t", " ", "x", " ", "=", " ", ";", "\n">>,
     <<"a", "b", "c", "\n", "d", "e", "f">>,
     <<"U+00E9", "a", "\n", "a", "U+00E9">>}
Texts == SeqsUpTo(TextAlphabet, MaxTextLen) \cup ExampleTexts

Severities == {"Error", "Warning", "Note", "Help"}
Secondaries ==
    {<<>>, <<<<ByteSpan(0, 1), "label">>>>, <<<<ByteSpan(0, 1), "label">>, <<ByteSpan(1, 2), "other">>>>}
Extras ==
    {[help |-> <<>>, notes |-> <<>>],
     [help |-> <<>>, notes |-> <<[severity |-> "Note", message |-> "see", span |-> <<>>]>>],
     [help |-> <<"try this">>,
      notes |-> <<[severity |-> "Help", message |-> "here", span |-> <<ByteSpan(0, 1)>>]>>]}

Diagnostics(text) ==
    {[severity |-> sv, message |-> "message", span |-> ByteSpan(start, end),
      help |-> x.help, secondary |-> sec, notes |-> x.notes] :
        sv \in Severities, start \in 0..src_len(text), end \in 0..(src_len(text) + 1),
        sec \in Secondaries, x \in Extras}

Rendered(out) == [st |-> "rendered", out |-> out]

InitRender ==
    /\ src \in Texts
    /\ pos = 0
    /\ diagnostic = NoDiagnostic
    /\ env = NoEnv
    /\ calls = <<>>
    /\ tokens = <<>>
    /\ index = 1
    /\ nodes = <<>>
    /\ result = Running
    /\ handler = "none"
    /\ stmt_start = 0

\* Source::new(text).line_col(p) for an offset of a new text
LineColAt ==
    /\ result.st = "running"
    /\ \E p \in 0..src_len(src) :
           /\ pos' = p
           /\ result' = line_col(SourceNew(src), p)
    /\ handler' = "line_col"
    /\ UNCHANGED <<src, diagnostic, tokens, index, nodes, stmt_start, env, calls>>

\* render(&diagnostic, &source) for a diagnostic on a new text
Render ==
    /\ result.st = "running"
    /\ \E d \in Diagnostics(src) :
           /\ diagnostic' = d
           /\ result' = Rendered(render(d, SourceNew(src)))
    /\ handler' = "render"
    /\ UNCHANGED <<src, pos, tokens, index, nodes, stmt_start, env, calls>>

\* render of the diagnostic that was rendered, with other secondary labels
Relabel ==
    /\ result.st = "rendered"
    /\ \E secondary \in Secondaries \ {diagnostic.secondary} :
           /\ diagnostic' = [diagnostic EXCEPT !.secondary = secondary]
           /\ result' = Rendered(render(diagnostic', SourceNew(src)))
    /\ handler' = "relabel"
    /\ UNCHANGED <<src, pos, tokens, index, nodes, stmt_start, env, calls>>

NextRender ==
    \/ LineColAt
    \/ Render
    \/ Relabel

SpecRender == InitRender /\ [][NextRender]_vars

(***************************************************************************)
(* Diagnostic builders (src/src/compiler/error.rs).  `calls` records the   *)
(* builder calls made on the diagnostic, in order.                         *)
(***************************************************************************)
\* Diagnostic::error / warning / note / help
DiagnosticNew(severity, message, span) ==
    [severity |-> severity, message |-> message, span |-> span,
     help |-> <<>>, secondary |-> <<>>, notes |-> <<>>]

\* Note::note / help / warning / error
NoteNew(severity, message, span) ==
    [severity |-> severity, message |-> message, span |-> span]

with_help(d, help) == [d EXCEPT !.help = <<help>>]

\* with_secondary that puts the label in front of the list
with_secondary_front(d, span, label) == [d EXCEPT !.secondary = <<<<span, label>>>> \o @]

with_secondary(d, span, label) == [d EXCEPT !.secondary = Append(@, <<span, label>>)]

with_note(d, note) == [d EXCEPT !.notes = Append(@, note)]

MaxCalls == 3
HelpTexts == {"help_text", "other help"}
SecondaryLabels == {<<ByteSpan(1, 2), "secondary">>, <<ByteSpan(0, 1), "other">>}
Notes == {NoteNew("Note", "note text", <<ByteSpan(5, 6)>>), NoteNew("Help", "hint", <<>>)}

Call(op, arg) == [op |-> op, arg |-> arg]

InitBuild ==
    /\ diagnostic \in {DiagnosticNew(sv, "test", sp) :
                           sv \in Severities, sp \in {ByteSpan(5, 6), ByteSpan(0, 0)}}
    /\ calls = <<>>
    /\ env = NoEnv
    /\ src = <<>>
    /\ pos = 0
    /\ tokens = <<>>
    /\ index = 1
    /\ nodes = <<>>
    /\ result = Running
    /\ handler = "none"
    /\ stmt_start = 0

\* one more builder call on the diagnostic
Built(op, arg, d) ==
    /\ diagnostic' = d
    /\ calls' = Append(calls, Call(op, arg))
    /\ handler' = op
    /\ UNCHANGED <<env, src, pos, tokens, index, nodes, result, stmt_start>>

AttachHelp ==
    /\ Len(calls) < MaxCalls
    /\ \E help \in HelpTexts : Built("with_help", help, with_help(diagnostic, help))

AttachSecondary ==
    /\ Len(calls) < MaxCalls
    /\ \E sec \in SecondaryLabels :
           Built("with_secondary", sec, with_secondary(diagnostic, sec[1], sec[2]))

AttachNote ==
    /\ Len(calls) < MaxCalls
    /\ \E note \in Notes : Built("with_note", note, with_note(diagnostic, note))

NextBuild ==
    \/ AttachHelp
    \/ AttachSecondary
    \/ AttachNote

SpecBuild == InitBuild /\ [][NextBuild]_vars

(***************************************************************************)
(* Environment and evaluator (src/src/compiler/semantics).  An Env is the  *)
(* stack of scopes, each a map from names to slot ids, and the slots: a    *)
(* slot id stands for an Rc<RefCell<Slot>>, and a slot that no scope       *)
(* refers to any more is dropped.  `calls` records the nodes visited by    *)
(* the last evaluation, with the depth of the scope stack at each visit.   *)
(***************************************************************************)
Value(kind, v) == [kind |-> kind, v |-> v]
Void == Value("Void", "")
Free == Value("Free", "")
FuncValue(node) == Value("Func", node)

\* Value::from_literal
from_literal(node) ==
    CASE node.lit = "Num" -> Value("Num", node.num)
      [] node.lit = "Dec" -> Value("Dec", node.text)
      [] node.lit = "Flag" -> Value("Flag", node.num)
      [] node.lit = "Text" -> Value("Text", node.text)
      [] node.lit = "Void" -> Void

\* str::parse::<f64>() of the decimal texts of the model: the number is zero,
\* is not zero, or the text is no number
parse_f64(d) ==
    CASE d \in {"0", "0.0", "00.000"} -> "zero"
      [] d \in {"1.0", "-0.5"} -> "nonzero"
      [] OTHER -> "error"

\* truth_of that takes every integer for true
truth_of_any_number(value) ==
    CASE value.kind = "Flag" -> value.v
      [] value.kind = "Void" -> FALSE
      [] value.kind = "Num" -> TRUE
      [] value.kind = "Dec" -> parse_f64(value.v) = "nonzero"
      [] value.kind = "Text" -> value.v # ""

\* truth_of (Emp is the explicit absence of a value, Value::Void)
truth_of(value) ==
    CASE value.kind = "Flag" -> value.v
      [] value.kind = "Void" -> FALSE
      [] value.kind = "Num" -> value.v # 0
      [] value.kind = "Dec" -> parse_f64(value.v) = "nonzero"
      [] value.kind = "Text" -> value.v # ""

Scope == [name \in {} |-> 0]

\* Env::new
EnvNew == [scopes |-> <<Scope>>, slots |-> <<>>]

EnvOk(e) == [st |-> "ok", env |-> e]
EnvErr(e) == [st |-> "err", env |-> e]
EnvPanic(why, e) == [st |-> "panic", why |-> why, env |-> e]

\* the slots some scope refers to
Referenced(scopes) ==
    UNION {{scopes[k][name] : name \in DOMAIN scopes[k]} : k \in 1..Len(scopes)}

\* drop of the Rc's that lost their last reference
release(scopes, slots) ==
    LET live == Referenced(scopes)
        top == IF live = {} THEN 0 ELSE CHOOSE m \in live : \A o \in live : o <= m
    IN [scopes |-> scopes,
        slots |-> [id \in 1..top |-> IF id \in live THEN slots[id] ELSE Free]]

\* Rc::new: a slot that is not in use
alloc(slots) ==
    IF \E id \in 1..Len(slots) : slots[id] = Free
    THEN CHOOSE id \in 1..Len(slots) :
             slots[id] = Free /\ \A o \in 1..(id - 1) : slots[o] # Free
    ELSE Len(slots) + 1

store(slots, id, value) ==
    [o \in 1..(IF id > Len(slots) THEN id ELSE Len(slots)) |-> IF o = id THEN value ELSE slots[o]]

\* HashMap::insert into the innermost scope
insert(scopes, name, id) ==
    [scopes EXCEPT ![Len(scopes)] =
        [n \in DOMAIN scopes[Len(scopes)] \cup {name} |->
            IF n = name THEN id ELSE scopes[Len(scopes)][n]]]

\* Env::push_scope
push_scope(e) == [e EXCEPT !.scopes = Append(@, Scope)]

\* Env::pop_scope that leaves the scope on the stack
pop_scope_keeps_scope(e) ==
    IF e.scopes = <<>> THEN EnvPanic("scope underflow", e) ELSE EnvOk(e)

\* Env::pop_scope
pop_scope(e) ==
    IF e.scopes = <<>> THEN EnvPanic("scope underflow", e)
    ELSE EnvOk(release(SubSeq(e.scopes, 1, Len(e.scopes) - 1), e.slots))

\* Env::define that writes into the slot the name has in the current scope
define_in_place(e, name, value) ==
    IF e.scopes = <<>> THEN EnvPanic("no scope", e)
    ELSE IF name \in DOMAIN e.scopes[Len(e.scopes)]
    THEN EnvOk([e EXCEPT !.slots = store(@, e.scopes[Len(e.scopes)][name], value)])
    ELSE EnvOk(release(insert(e.scopes, name, alloc(e.slots)),
                       store(e.slots, alloc(e.slots), value)))

\* Env::define
define(e, name, value) ==
    IF e.scopes = <<>> THEN EnvPanic("no scope", e)
    ELSE EnvOk(release(insert(e.scopes, name, alloc(e.slots)),
                       store(e.slots, alloc(e.slots), value)))

\* Env::lookup: the slot of the name in the innermost scope that has it, from
\* scope k outwards; 0 for None
RECURSIVE lookup_from(_, _, _)
lookup_from(scopes, name, k) ==
    IF k = 0 THEN 0
    ELSE IF name \in DOMAIN scopes[k] THEN scopes[k][name]
    ELSE lookup_from(scopes, name, k - 1)

lookup(e, name) == lookup_from(e.scopes, name, Len(e.scopes))

\* Env::copy made like a bind: a new slot with the value of the target
copy_as_snapshot(e, name, target) ==
    IF lookup(e, target) = 0 THEN EnvErr(e)
    ELSE define(e, name, e.slots[lookup(e, target)])

\* Env::copy
copy(e, name, target) ==
    IF lookup(e, target) = 0 THEN EnvErr(e)
    ELSE IF e.scopes = <<>> THEN EnvPanic("no scope", e)
    ELSE EnvOk(release(insert(e.scopes, name, lookup(e, target)), e.slots))

\* Env::assign
assign(e, name, value) ==
    IF lookup(e, name) = 0 THEN EnvErr(e)
    ELSE EnvOk([e EXCEPT !.slots = store(@, lookup(e, name), value)])

\* Env::get_value: Some(value) as <<value>>, None as <<>>
get_value(e, name) ==
    IF lookup(e, name) = 0 THEN <<>> ELSE <<e.slots[lookup(e, name)]>>

\* a visit of a node by eval_value or eval_node_ctrl
Visit(by, node, e) == [by |-> by, node |-> node, depth |-> Len(e.scopes)]

\* results of an evaluation: the environment after it, the Control (or "Value"
\* for eval_value), the value, and the visits made
Evaluated(e, ctl, value, trace) ==
    [st |-> "ok", env |-> e, ctl |-> ctl, value |-> value, trace |-> trace]
Panicked(why, e, trace) == [st |-> "panic", why |-> why, env |-> e, trace |-> trace]

\* the result with these visits before its own
After(trace, r) == [r EXCEPT !.trace = trace \o @]

RECURSIVE eval_value(_, _)
RECURSIVE eval_value_nodes(_, _, _, _)
RECURSIVE eval_node_ctrl(_, _)
RECURSIVE eval_block_nodes(_, _, _)
RECURSIVE eval_branches(_, _, _)

\* eval_value, Node::Block: `for n in &block.nodes { last = self.eval_value(n) }`
\* from node k on, then pop_scope
eval_value_nodes(e, ns, k, last) ==
    IF k > Len(ns)
    THEN (IF pop_scope(e).st = "panic"
          THEN Panicked(pop_scope(e).why, e, <<>>)
          ELSE Evaluated(pop_scope(e).env, "Value", last, <<>>))
    ELSE LET Rest(r) == IF r.st = "panic" THEN r
                        ELSE After(r.trace, eval_value_nodes(r.env, ns, k + 1, r.value))
         IN Bound(eval_value(e, ns[k]), Rest)

eval_value(e, node) ==
    CASE node.tag = "Lit" ->
             Evaluated(e, "Value", from_literal(node), <<Visit("eval_value", node, e)>>)
      [] node.tag = "Ident" ->
             Evaluated(e, "Value",
                       IF get_value(e, node.name) = <<>> THEN Void
                       ELSE get_value(e, node.name)[1],
                       <<Visit("eval_value", node, e)>>)
      [] node.tag = "Func" ->
             IF define(e, node.name, FuncValue(node)).st = "panic"
             THEN Panicked("no scope", e, <<Visit("eval_value", node, e)>>)
             ELSE Evaluated(define(e, node.name, FuncValue(node)).env, "Value",
                            FuncValue(node), <<Visit("eval_value", node, e)>>)
      [] node.tag = "Block" ->
             After(<<Visit("eval_value", node, e)>>,
                   eval_value_nodes(push_scope(e), node.nodes, 1, Void))
      [] OTHER -> Evaluated(e, "Value", Void, <<Visit("eval_value", node, e)>>)

\* Node::Guard: the loop over the branches from branch k on; the value of the
\* first branch that is true, Void when there is none
eval_branches(e, branches, k) ==
    IF k > Len(branches) THEN Evaluated(e, "Value", Void, <<>>)
    ELSE LET Rest(r) == IF r.st = "panic" \/ truth_of(r.value) THEN r
                        ELSE After(r.trace, eval_branches(r.env, branches, k + 1))
         IN Bound(eval_value(e, branches[k]), Rest)

\* Node::Block: the loop over the nodes from node k on, with the pop_scope of
\* either exit
eval_block_nodes(e, ns, k) ==
    IF k > Len(ns)
    THEN (IF pop_scope(e).st = "panic"
          THEN Panicked(pop_scope(e).why, e, <<>>)
          ELSE Evaluated(pop_scope(e).env, "Continue", Void, <<>>))
    ELSE LET Rest(r) ==
                 IF r.st = "panic" THEN r
                 ELSE IF r.ctl = "Return"
                 THEN (IF pop_scope(r.env).st = "panic"
                       THEN Panicked(pop_scope(r.env).why, r.env, r.trace)
                       ELSE Evaluated(pop_scope(r.env).env, "Return", r.value, r.trace))
                 ELSE After(r.trace, eval_block_nodes(r.env, ns, k + 1))
         IN Bound(eval_node_ctrl(e, ns[k]), Rest)

\* the define that ends Define, DefineEmpty, Bind, Guard and Func
defined(e, name, value, trace) ==
    IF define(e, name, value).st = "panic"
    THEN Panicked(define(e, name, value).why, e, trace)
    ELSE Evaluated(define(e, name, value).env, "Continue", Void, trace)

eval_node_ctrl(e, node) ==
    LET here == <<Visit("eval_node_ctrl", node, e)>>
    IN CASE node.tag = "Define" ->
                LET Define(v) == IF v.st = "panic" THEN After(here, v)
                                 ELSE defined(v.env, node.name, v.value, here \o v.trace)
                IN Bound(eval_value(e, node.value), Define)
         [] node.tag = "DefineEmpty" -> defined(e, node.name, Void, here)
         [] node.tag = "Copy" ->
                IF copy(e, node.name, node.target).st = "ok"
                THEN Evaluated(copy(e, node.name, node.target).env, "Continue", Void, here)
                ELSE Panicked("copy target must exist", e, here)
         [] node.tag = "Bind" ->
                IF get_value(e, node.target) = <<>>
                THEN Panicked("bind target must exist", e, here)
                ELSE defined(e, node.name, get_value(e, node.target)[1], here)
         [] node.tag = "Guard" ->
                LET Define(v) == IF v.st = "panic" THEN After(here, v)
                                 ELSE defined(v.env, node.target, v.value, here \o v.trace)
                IN Bound(eval_branches(e, node.branches, 1), Define)
         [] node.tag = "Ret" ->
                IF node.has_value
                THEN LET Return(v) == IF v.st = "panic" THEN After(here, v)
                                      ELSE Evaluated(v.env, "Return", v.value, here \o v.trace)
                     IN Bound(eval_value(e, node.value), Return)
                ELSE Evaluated(e, "Return", Void, here)
         [] node.tag = "Block" ->
                After(here, eval_block_nodes(push_scope(e), node.nodes, 1))
         [] node.tag = "Func" -> defined(e, node.name, FuncValue(node), here)
         [] OTHER ->
                LET Ignore(v) == IF v.st = "panic" THEN After(here, v)
                                 ELSE Evaluated(v.env, "Continue", Void, here \o v.trace)
                IN Bound(eval_value(e, node), Ignore)

\* eval_node: a Return that reaches it is a panic
eval_node(e, node) ==
    LET Checked(r) == IF r.st = "ok" /\ r.ctl = "Return"
                      THEN Panicked("return executed outside of a function", r.env, r.trace)
                      ELSE r
    IN Bound(eval_node_ctrl(e, node), Checked)

\* names, values and nodes of the evaluations
Names == {"x", "y"}
MaxDepth == 2
MaxGuardBranches == 2
MaxBlockLen == 2

LitNum(num) == NodeLit("Num", num, "")
LitFlag(flag) == NodeLit("Flag", flag, "")
LitText(text) == NodeLit("Text", 0, text)
LitDec(dec) == NodeLit("Dec", 0, dec)
LitVoid == NodeLit("Void", 0, "")

AssignedValues == {Value("Num", 0), Value("Num", 1)}
DefineValueNodes == {LitNum(0), LitNum(1), NodeIdent("x")}
BranchNodes == {LitFlag(TRUE), LitFlag(FALSE), LitNum(0), LitText("ok"), NodeIdent("x")}
GuardNodes ==
    {NodeGuard(target, branches) :
         target \in Names, branches \in SeqsUpTo(BranchNodes, MaxGuardBranches)}
         \cup {NodeGuard("x", <<LitVoid, LitNum(0), LitText(""), LitText("ok")>>),
               NodeGuard("x", <<LitFlag(FALSE), LitNum(1), LitNum(2)>>),
               NodeGuard("y", <<LitDec("0.0"), LitText(""), LitVoid>>),
               NodeGuard("y", <<NodeBinary("Add", LitNum(1), LitNum(1)),
                                NodeBlock(<<LitNum(0), LitNum(1)>>), LitDec("1.0")>>)}
RetNodes == {NodeRet(FALSE, NoNode), NodeRet(TRUE, LitNum(1))}
BlockStatements ==
    {NodeDefineEmpty("x"), NodeCopy("y", "x"), NodeRet(TRUE, LitNum(1)),
     NodeBlock(<<NodeRet(FALSE, NoNode)>>), NodeBlock(<<NodeDefine("y", LitNum(1))>>)}
BlockNodes ==
    {NodeBlock(ns) : ns \in SeqsUpTo(BlockStatements, MaxBlockLen)}
        \cup {NodeBlock(<<NodeDefineEmpty("x"),
                          NodeBlock(<<NodeCopy("y", "x"), NodeRet(TRUE, LitNum(1)),
                                      NodeDefineEmpty("y")>>),
                          NodeDefine("x", LitNum(1))>>)}

\* Evaluator::new
InitEval ==
    /\ env = EnvNew
    /\ calls = <<>>
    /\ result = Running
    /\ handler = "none"
    /\ diagnostic = NoDiagnostic
    /\ src = <<>>
    /\ pos = 0
    /\ tokens = <<>>
    /\ index = 1
    /\ nodes = <<>>
    /\ stmt_start = 0

\* eval_node(node) has returned r or panicked
Evaluate(h, r) ==
    /\ handler' = h
    /\ env' = r.env
    /\ calls' = r.trace
    /\ result' = IF r.st = "panic" THEN Panic(r.why) ELSE [st |-> "ok", ctl |-> r.ctl]
    /\ UNCHANGED <<diagnostic, src, pos, tokens, index, nodes, stmt_start>>

\* an operation on the environment has returned r or panicked
EnvApply(h, args, r) ==
    /\ handler' = h
    /\ env' = r.env
    /\ calls' = <<Call(h, args)>>
    /\ result' = IF r.st = "panic" THEN Panic(r.why) ELSE [st |-> r.st, ctl |-> "None"]
    /\ UNCHANGED <<diagnostic, src, pos, tokens, index, nodes, stmt_start>>

Alive == result.st # "panic"

EvalDefine ==
    /\ Alive
    /\ \E name \in Names, value \in DefineValueNodes :
           Evaluate("define", eval_node(env, NodeDefine(name, value)))

EvalDefineEmpty ==
    /\ Alive
    /\ \E name \in Names : Evaluate("define_empty", eval_node(env, NodeDefineEmpty(name)))

EvalCopy ==
    /\ Alive
    /\ \E name \in Names, target \in Names :
           Evaluate("copy", eval_node(env, NodeCopy(name, target)))

EvalBind ==
    /\ Alive
    /\ \E name \in Names, target \in Names :
           Evaluate("bind", eval_node(env, NodeBind(name, target)))

Assign ==
    /\ Alive
    /\ \E name \in Names, value \in AssignedValues :
           EnvApply("assign", <<name, value>>, assign(env, name, value))

PushScope ==
    /\ Alive
    /\ Len(env.scopes) < MaxDepth
    /\ EnvApply("push_scope", <<>>, EnvOk(push_scope(env)))

PopScope ==
    /\ Alive
    /\ EnvApply("pop_scope", <<>>, pop_scope(env))

NextEnv ==
    \/ EvalDefine
    \/ EvalDefineEmpty
    \/ EvalCopy
    \/ EvalBind
    \/ Assign
    \/ PushScope
    \/ PopScope

SpecEnv == InitEval /\ [][NextEnv]_vars

\* the environment after these nodes of a program
RECURSIVE env_after(_, _)
env_after(e, program) ==
    IF program = <<>> THEN e
    ELSE env_after(eval_node(e, program[1]).env, Tail(program))

\* environments in which guards, returns and blocks are evaluated: the new one,
\* x defined, x and y defined, y an alias of x, and x defined in an outer scope
StartEnvs ==
    {EnvNew,
     env_after(EnvNew, <<NodeDefine("x", LitNum(1))>>),
     env_after(EnvNew, <<NodeDefineEmpty("x"), NodeDefine("y", LitNum(0))>>),
     env_after(EnvNew, <<NodeDefine("x", LitNum(0)), NodeCopy("y", "x")>>),
     push_scope(env_after(EnvNew, <<NodeDefine("x", LitNum(1))>>)),
     env_after(push_scope(env_after(EnvNew, <<NodeDefine("x", LitNum(1))>>)),
               <<NodeDefine("x", LitNum(0))>>)}

\* an evaluator whose environment a program has set up
InitNode ==
    /\ env \in StartEnvs
    /\ calls = <<>>
    /\ result = Running
    /\ handler = "none"
    /\ diagnostic = NoDiagnostic
    /\ src = <<>>
    /\ pos = 0
    /\ tokens = <<>>
    /\ index = 1
    /\ nodes = <<>>
    /\ stmt_start = 0

EvalGuard ==
    /\ result.st = "running"
    /\ \E node \in GuardNodes : Evaluate("guard", eval_node(env, node))

EvalRet ==
    /\ result.st = "running"
    /\ \E node \in RetNodes : Evaluate("ret", eval_node(env, node))

EvalBlock ==
    /\ result.st = "running"
    /\ \E node \in BlockNodes : Evaluate("block", eval_node(env, node))

NextEval ==
    \/ EvalGuard
    \/ EvalRet
    \/ EvalBlock

SpecEval == InitNode /\ [][NextEval]_vars

(***************************************************************************)
(* Properties                                                              *)
(***************************************************************************)
Failed == result.st \in {"err", "panic"}
Message == IF result.st = "err" THEN result.diag.message ELSE ""
\* the words of the rendered diagnostic that come from the help text
Help == IF result.st = "err" THEN result.diag.help ELSE <<>>
LastNode == nodes[Len(nodes)]
\* the parser named by `handler` returned a node for the statement at stmt_start
Produced == ~Failed /\ Len(nodes) > 0 /\ handler # "none"

InvalidMessage(h) ==
    CASE h = "define" -> "invalid define statement"
      [] h = "define_empty" -> "invalid define empty statement"
      [] h = "copy" -> "invalid copy statement"
      [] h = "bind" -> "invalid bind statement"
      [] h = "guard" -> "invalid guard statement"
      [] h = "ret" -> "invalid return statement"
      [] OTHER -> "invalid function call statement"

UnterminatedMessage(h) ==
    CASE h = "define" -> "unterminated define statement"
      [] h = "copy" -> "unterminated copy statement"
      [] h = "bind" -> "unterminated bind statement"
      [] h = "guard" -> "unterminated guard statement"
      [] h = "ret" -> "unterminated return statement"
      [] OTHER -> "unterminated function call statement"

KindsFrom(toks, from, to) == [k \in 1..(to - from + 1) |-> toks[from + k - 1].kind]

\* first position at or after `from` whose kind is in ks, 0 when there is none
FirstOf(toks, from, ks) == scan_for(toks, from, Len(toks) + 1, ks)

StartsCall(toks, p) == toks[p].kind = "Ident" /\ toks[p + 1].kind = "LParen"

AtomKinds == {"Ident", "NumLit", "DecLit", "TextLit", "KwVoid"}

AtomNode(t) ==
    CASE t.kind = "Ident" -> NodeIdent(t.lexeme)
      [] t.kind = "NumLit" -> NodeLit("Num", parse_i64(t.lexeme), "")
      [] t.kind = "DecLit" -> NodeLit("Dec", 0, t.lexeme)
      [] t.kind = "TextLit" -> NodeLit("Text", 0, t.lexeme)
      [] OTHER -> NodeLit("Void", 0, "")

\* ---- C1 ----
\* the whole input is  name ?= b1 : b2 : ... : bn ;  with n >= 1 atoms
IsGuardStatement(toks) ==
    LET n == Len(toks)
    IN /\ n >= 5 /\ n % 2 = 1
       /\ toks[1].kind = "Ident" /\ toks[2].kind = "Guard"
       /\ toks[n].kind = "Eof" /\ toks[n - 1].kind = "Semicolon"
       /\ \A k \in 3..(n - 2) : IF k % 2 = 1 THEN toks[k].kind \in AtomKinds
                                ELSE toks[k].kind = "Colon"

GuardBranchesOf(toks) == [k \in 1..((Len(toks) - 3) \div 2) |-> AtomNode(toks[2 * k + 1])]

\* C1: every guard statement `name ?= b1 : ... : bn;` whose branches are
\* identifiers or literals parses to exactly one Guard node with target = name
\* and the n branches in source order.
C1_GuardParsesBranchesInOrder ==
    (IsGuardStatement(tokens) /\ handler = "guard") =>
        /\ ~Failed
        /\ nodes = <<NodeGuard(tokens[1].lexeme, GuardBranchesOf(tokens))>>

\* ---- C2 ----
\* at stmt_start: fn name :( ... with the parameter section closed directly by
\* the close token, or the first chain token followed at once by the close token
NoBodySection(toks, s) ==
    /\ s + 2 <= Len(toks)
    /\ KindsFrom(toks, s, s + 2) = <<"KwFn", "Ident", "FuncStart">>
    /\ is_snake_case(toks[s + 1].lexeme)
    /\ LET close == FirstOf(toks, s + 3, {"FuncEnd"})
           chain == FirstOf(toks, s + 3, {"FuncChain"})
       IN /\ close # 0
          /\ \/ chain = 0
             \/ chain > close
             \/ chain + 1 = close

\* C2: a function with a parameter section and no body section fails with a
\* Diagnostic whose text mentions the missing body.
C2_MissingBodyIsDiagnosed ==
    (handler = "func" /\ NoBodySection(tokens, stmt_start)) =>
        /\ result.st = "err"
        /\ Contains(Help, <<"function", "body">>)

\* ---- C3 ----
\* at s:  name = ... = ... ;  (a second define operator before the terminator)
ChainedDefine(toks, s) ==
    LET semi == FirstOf(toks, s, {"Semicolon"})
    IN /\ semi # 0
       /\ KindsFrom(toks, s, s + 1) = <<"Ident", "Define">>
       /\ toks[s + 2].kind \in AtomKinds
       /\ scan_for(toks, s + 3, semi, {"Define"}) # 0

\* C3: a chained define such as `a = b = c;` fails with the message "invalid
\* define statement" and its rendered text contains "cannot be chained".
C3_ChainedDefineSaysCannotBeChained ==
    (handler = "define" /\ ChainedDefine(tokens, stmt_start)) =>
        /\ result.st = "err"
        /\ Message = "invalid define statement"
        /\ Contains(Help, <<"cannot", "be", "chained">>)

\* ---- C4 ----
OperatorHandlers == {"define", "define_empty", "copy", "bind", "guard"}

\* the tokens before the statement operator are exactly [loc] identifier
GoodLeftSide(toks, s) ==
    LET op == FirstOf(toks, s, StatementOperators)
    IN \/ op = s + 1 /\ toks[s].kind = "Ident"
       \/ op = s + 2 /\ toks[s].kind = "KwLoc" /\ toks[s + 1].kind = "Ident"

\* C4: a define, define-empty, copy, bind or guard statement (terminated) whose
\* tokens before the operator are not exactly one identifier, optionally after
\* `loc`, fails with the statement's own "invalid <kind> statement" diagnostic.
C4_MalformedLeftSideIsRejected ==
    (/\ handler \in OperatorHandlers
     /\ (handler = "define_empty" \/ FirstOf(tokens, stmt_start, {"Semicolon"}) # 0)
     /\ ~GoodLeftSide(tokens, stmt_start)) =>
        /\ result.st = "err"
        /\ Message = InvalidMessage(handler)

\* ---- C5 ----
TerminatedHandlers == {"define", "copy", "bind", "guard", "ret", "call_statement"}

\* a statement starts at s and has no `;` before the next block-close or
\* function-close token
NoTerminatorInBoundary(toks, s) ==
    LET stop == FirstOf(toks, s, {"Semicolon", "BlockEnd", "FuncEnd"})
    IN /\ peek_kind(toks, s) \notin {"Semicolon", "BlockEnd", "FuncEnd", "Eof"}
       /\ (stop = 0 \/ toks[stop].kind # "Semicolon")

\* the statement of handler h at s begins as that statement should: identifier,
\* operator, operand; `ret`; or identifier `(`
WellBegun(toks, s, h) ==
    CASE h = "ret" -> TRUE
      [] h = "call_statement" -> StartsCall(toks, s)
      [] OTHER -> /\ s + 2 <= Len(toks)
                  /\ toks[s].kind = "Ident"
                  /\ toks[s + 1].kind \in StatementOperators
                  /\ toks[s + 2].kind \in AtomKinds

\* C5: when no `;` occurs inside the statement boundary, a define, copy, bind,
\* guard, return or call statement, at top level or first in a block, fails with
\* "unterminated <kind> statement", even if a later statement has a `;`.
C5_TerminatorSearchIsBounded ==
    /\ (/\ handler \in TerminatedHandlers
        /\ WellBegun(tokens, stmt_start, handler)
        /\ NoTerminatorInBoundary(tokens, stmt_start)) =>
            (result.st = "err" /\ Message = UnterminatedMessage(handler))
    /\ (/\ handler = "block"
        /\ peek_kind(tokens, stmt_start + 1) \notin {"BlockEnd", "BlockChain"}
        /\ statement_kind(tokens, stmt_start + 1) \in TerminatedHandlers
        /\ WellBegun(tokens, stmt_start + 1, statement_kind(tokens, stmt_start + 1))
        /\ NoTerminatorInBoundary(tokens, stmt_start + 1)) =>
            (/\ result.st = "err"
             /\ Message = UnterminatedMessage(statement_kind(tokens, stmt_start + 1)))

\* ---- C6 ----
\* a statement operator or `ret` between the statement's operator and its `;`
EmbeddedStatement(toks, s) ==
    LET op == FirstOf(toks, s, StatementOperators)
        semi == FirstOf(toks, s, {"Semicolon"})
    IN /\ op # 0 /\ semi # 0 /\ op < semi
       /\ scan_for(toks, op + 1, semi, StatementOperators \cup {"KwRet"}) # 0

\* C6: a define, copy, bind or guard statement with a define, define-empty,
\* copy, bind or guard operator or `ret` between its operator and its `;` fails
\* with its own "invalid <kind> statement" diagnostic and produces no node.
C6_EmbeddedStatementIsRejected ==
    (/\ handler \in {"define", "copy", "bind", "guard"}
     /\ EmbeddedStatement(tokens, stmt_start)) =>
        /\ result.st = "err"
        /\ Message = InvalidMessage(handler)

\* ---- C7 ----
\* at s: exactly  [loc] identifier operator identifier ;
ExactCopyShape(toks, s, op) ==
    LET p == IF toks[s].kind = "KwLoc" THEN s + 1 ELSE s
    IN /\ p + 3 <= Len(toks)
       /\ KindsFrom(toks, p, p + 3) = <<"Ident", op, "Ident", "Semicolon">>

CopyShapeEnd(toks, s) == (IF toks[s].kind = "KwLoc" THEN s + 1 ELSE s) + 4

CopyStatementExact(h, op) ==
    (handler = h /\ FirstOf(tokens, stmt_start, {"Semicolon"}) # 0) =>
        IF ExactCopyShape(tokens, stmt_start, op)
        THEN /\ Produced
             /\ LastNode.tag = op
             /\ index = CopyShapeEnd(tokens, stmt_start)
             /\ LastNode.name = tokens[index - 4].lexeme
             /\ LastNode.target = tokens[index - 2].lexeme
        ELSE /\ result.st = "err"
             /\ Message = InvalidMessage(h)

\* C7: a (terminated) copy or bind statement is accepted only when it is
\* exactly [loc] identifier, operator, identifier, `;`; then the node carries
\* the two identifiers, and every other shape fails with "invalid copy
\* statement" / "invalid bind statement".
C7_CopyBindExactShape ==
    /\ CopyStatementExact("copy", "Copy")
    /\ CopyStatementExact("bind", "Bind")

\* ---- C8 ----
RECURSIVE IsValue(_)
IsValue(n) ==
    /\ n.tag # "Ident"
    /\ n.tag = "Call" => \A k \in 1..Len(n.args) : IsValue(n.args[k])

RECURSIVE HoldsNoBareIdentifier(_)
HoldsNoBareIdentifier(n) ==
    CASE n.tag = "Define" -> IsValue(n.value)
      [] n.tag = "Ret" -> (n.has_value => IsValue(n.value))
      [] n.tag = "Guard" -> \A k \in 1..Len(n.branches) : IsValue(n.branches[k])
      [] n.tag = "Call" -> \A k \in 1..Len(n.args) : IsValue(n.args[k])
      [] n.tag = "Block" -> \A k \in 1..Len(n.nodes) : HoldsNoBareIdentifier(n.nodes[k])
      [] n.tag = "Func" ->
            /\ \A k \in 1..Len(n.params) :
                    n.params[k].has_default => IsValue(n.params[k].default)
            /\ \A k \in 1..Len(n.bodies) : HoldsNoBareIdentifier(n.bodies[k])
      [] OTHER -> TRUE

HasPrefix(toks, ks) == Len(toks) >= Len(ks) /\ KindsFrom(toks, 1, Len(ks)) = ks

\* the position of the value that parse_rhs is called on, in a first statement
\* that passes the structural checks made before its value is parsed; 0 otherwise
ValuePosition(toks) ==
    LET semi == FirstOf(toks, 1, {"Semicolon"})
        clean(p) == /\ semi > p
                    /\ scan_for(toks, p, semi, StatementOperators \cup {"KwRet"}) = 0
        chain == FirstOf(toks, 6, {"FuncChain"})
    IN IF HasPrefix(toks, <<"KwRet">>)
       THEN (IF clean(2) THEN 2 ELSE 0)
       ELSE IF HasPrefix(toks, <<"Ident", "Guard", "NumLit", "Colon">>)
       THEN (IF clean(5) THEN 5 ELSE 0)
       ELSE IF HasPrefix(toks, <<"Ident", "Guard">>)
       THEN (IF clean(3) /\ toks[3].kind # "Colon" THEN 3 ELSE 0)
       ELSE IF HasPrefix(toks, <<"Ident", "Define", "Ident", "LParen">>)
       THEN (IF clean(5) /\ toks[5].kind # "RParen" THEN 5 ELSE 0)
       ELSE IF HasPrefix(toks, <<"Ident", "Define">>)
       THEN (IF clean(3) /\ ~(semi = 4 /\ toks[3].kind = "Ident") THEN 3 ELSE 0)
       ELSE IF HasPrefix(toks, <<"KwFn", "Ident", "FuncStart", "Ident", "Define">>)
       THEN (IF /\ is_snake_case(toks[2].lexeme)
                /\ FirstOf(toks, 6, {"FuncEnd"}) # 0
                /\ chain > 6
                /\ toks[chain + 1].kind # "FuncEnd"
                /\ toks[6].kind # "Comma"
             THEN 6 ELSE 0)
       ELSE 0

LoneIdentifierAt(toks, p) ==
    /\ ~StartsCall(toks, p)
    /\ parse_expr(toks, p).st = "ok"
    /\ parse_expr(toks, p).node.tag = "Ident"

\* the value built from position p by the first statement, once it is in nodes
FirstValue(n) ==
    CASE n.tag = "Define" -> IF ValuePosition(tokens) = 5 THEN n.value.args[1] ELSE n.value
      [] n.tag = "Ret" -> n.value
      [] n.tag = "Guard" -> IF ValuePosition(tokens) = 5 THEN n.branches[2] ELSE n.branches[1]
      [] n.tag = "Func" -> n.params[1].default
      [] OTHER -> NoNode

Level(k) ==
    CASE k \in {"Mul", "Div", "Mod"} -> 8
      [] k \in {"Add", "Sub"} -> 7
      [] k \in {"Lt", "Le", "Gt", "Ge"} -> 6
      [] k \in {"Eq", "Ne"} -> 5
      [] k = "And" -> 4
      [] k = "Or" -> 3
      [] k \in {"Has", "Present"} -> 2
      [] k = "Pipe" -> 1
      [] OTHER -> 0

IsTwoOperatorExpr(toks) ==
    /\ Len(toks) = 6
    /\ toks[1].kind \in AtomKinds /\ toks[3].kind \in AtomKinds /\ toks[5].kind \in AtomKinds
    /\ Level(toks[2].kind) > 0 /\ Level(toks[4].kind) > 0
    /\ toks[6].kind = "Eof"

\* C9: `x op1 y op2 z` groups around the tighter operator first whatever the
\* textual order, and two operators of one level group left to right.
C9_PrecedenceAndLeftAssociativity ==
    (handler = "expr" /\ IsTwoOperatorExpr(tokens)) =>
        LET x == AtomNode(tokens[1])
            y == AtomNode(tokens[3])
            z == AtomNode(tokens[5])
            op1 == tokens[2].kind
            op2 == tokens[4].kind
        IN /\ result.st = "ok"
           /\ index = 6
           /\ nodes = <<IF Level(op1) >= Level(op2)
                        THEN NodeBinary(op2, NodeBinary(op1, x, y), z)
                        ELSE NodeBinary(op1, x, NodeBinary(op2, y, z))>>

\* `x - y * z` was parsed with the later, tighter operator grouped first
C9_Witness ==
    /\ handler = "expr"
    /\ IsTwoOperatorExpr(tokens)
    /\ tokens[2].kind = "Sub" /\ tokens[4].kind = "Mul"
    /\ result.st = "ok"
    /\ nodes[1].tag = "Sub" /\ nodes[1].rhs.tag = "Mul"

\* ---- C10 ----
\* operand ( argument )   or   atom op operand ( argument )
IsCallExpr(toks) ==
    \/ /\ Len(toks) = 5
       /\ KindsFrom(toks, 1, 5) = <<"Ident", "LParen", "NumLit", "RParen", "Eof">>
    \/ /\ Len(toks) = 7
       /\ toks[1].kind \in AtomKinds /\ Level(toks[2].kind) > 0
       /\ KindsFrom(toks, 3, 7) = <<"Ident", "LParen", "NumLit", "RParen", "Eof">>

\* C10: an operand followed by `(` args `)` inside an expression makes
\* parse_expr return a Call node with that operand as callee, bound tighter
\* than any binary operator (`1 + f(2)` is Add(1, Call(f, [2]))).
C10_CallApplicationBindsTightest ==
    (handler = "expr" /\ IsCallExpr(tokens)) =>
        /\ result.st = "ok"
        /\ nodes = <<IF Len(tokens) = 5
                     THEN NodeCall(AtomNode(tokens[1]), <<AtomNode(tokens[3])>>)
                     ELSE NodeBinary(tokens[2].kind, AtomNode(tokens[1]),
                                     NodeCall(AtomNode(tokens[3]), <<AtomNode(tokens[5])>>))>>

\* ---- C11 ----
PrefixKinds == {"Sub", "Not"}

\* prefix operand op operand   or   prefix operand ( operand )
IsPrefixedInfixExpr(toks) ==
    /\ Len(toks) \in {5, 6}
    /\ toks[1].kind \in PrefixKinds
    /\ toks[2].kind \in AtomKinds
    /\ infix_binding_power(toks[3].kind).some
    /\ toks[4].kind \in AtomKinds
    /\ IF toks[3].kind = "LParen"
       THEN Len(toks) = 6 /\ toks[5].kind = "RParen" /\ toks[6].kind = "Eof"
       ELSE Len(toks) = 5 /\ toks[5].kind = "Eof"

PrefixNode(t, x) == NodeUnary(IF t.kind = "Sub" THEN "Neg" ELSE "Not", x)

\* C11: unary not and negate bind tighter than any infix operator: every entry
\* of the infix table has a left binding power below PREFIX_BP, and
\* `-a op b` parses as op(Neg(a), b) for every infix op of the table.
C11_PrefixBindsTighterThanInfix ==
    (handler = "expr" /\ IsPrefixedInfixExpr(tokens)) =>
        LET operand == PrefixNode(tokens[1], AtomNode(tokens[2]))
            kind == infix_binding_power(tokens[3].kind).kind
        IN /\ infix_binding_power(tokens[3].kind).l_bp < PREFIX_BP
           /\ result.st = "ok"
           /\ nodes = <<IF kind = "Call"
                        THEN NodeCall(operand, <<AtomNode(tokens[4])>>)
                        ELSE NodeBinary(kind, operand, AtomNode(tokens[4]))>>

\* ---- C12 ----
\* the first `;` after the `ret` at s, 0 when there is none
RetEnd(toks, s) == FirstOf(toks, s + 1, {"Semicolon"})

\* first statement operator or `ret` between the `ret` at s and its `;`
RetEmbedded(toks, s) ==
    scan_for(toks, s + 1, RetEnd(toks, s), StatementOperators \cup {"KwRet"})

\* the tokens from p up to the `;` at e are one value: a call, or an
\* expression that is not a lone identifier
ValueUpTo(toks, p, e) ==
    IF StartsCall(toks, p) THEN parse_call(toks, p)
    ELSE parse_expr(toks, p)

IsNonIdentifierValue(toks, p, e) ==
    LET Whole(v) == v.st = "ok" /\ v.i = e /\ v.node.tag # "Ident"
    IN Whole(ValueUpTo(toks, p, e))

StatementNode(stmt) == parse_statement_entry(WithEof(stmt), 1).node

\* C13: a statement block may contain further statement blocks:
\* `:{ S1 :{ S2 }: }:` parses to one Block node whose nodes are [S1, Block[S2]]
\* for any well-formed statements S1 and S2.
C13_NestedStatementBlocks ==
    \A s1 \in WellFormedStatements, s2 \in WellFormedStatements :
        (handler = "block" /\ tokens = WithEof(NestedBlock(s1, s2))) =>
            /\ ~Failed
            /\ nodes = <<NodeBlock(<<StatementNode(s1),
                                     NodeBlock(<<StatementNode(s2)>>)>>)>>

\* ---- C14 ----
\* a parse step started at cursor i that returned a node moved the cursor on
Advances(r, i) == r.st = "ok" => r.i > i

\* one iteration of the program loop (parse_node) and of the block and
\* function-body loops (parse_statement_entry), from every cursor position up
\* to and past the end marker
EveryIterationAdvances ==
    \A i \in 1..(Len(tokens) + 1) :
        /\ Advances(parse_node(tokens, i), i)
        /\ Advances(parse_statement_entry(tokens, i), i)

\* an iteration of the program loop ends the parse or moves the cursor on
ProgramLoopAdvances == result'.st # "running" \/ index' > index

\* C14: parse_program terminates on every finite token sequence: each
\* iteration of the program loop, the block loop and the function-body loop
\* either ends the parse or advances the cursor by at least one token.
C14_ParseProgramTerminates ==
    /\ []EveryIterationAdvances
    /\ [][ProgramLoopAdvances]_vars
    /\ <>(result.st # "running")

\* a program of two statements was parsed to its end
C14_Witness ==
    /\ result.st = "ok"
    /\ Len(nodes) = 2
    /\ index = Len(tokens)

\* ---- C15 ----
\* the byte range that token i occupies in the source
TokenRange(toks, i) ==
    [start |-> token_pos(toks, i), end |-> token_pos(toks, i) + source_len(toks[i])]

\* C15: every Diagnostic of the parser has a primary span equal to the byte
\* range the offending token occupies in the source, or a zero-width span at
\* the cursor when the input ended early, for every token kind.
C15_SpanIsTokenByteRange ==
    result.st = "err" =>
        LET sp == result.diag.span
        IN IF sp.zero \/ sp.tok = 0
           THEN span_bytes(tokens, sp).start = span_bytes(tokens, sp).end
           ELSE span_bytes(tokens, sp) = TokenRange(tokens, sp.tok)

\* the end of the run of characters of a class that starts at k, stated
\* directly: the least index from k on that is past the source or outside the
\* class
RunEnd(s, k, class) ==
    CHOOSE e \in k..(Len(s) + 1) :
        /\ \A j \in k..(e - 1) : s[j] \in class
        /\ e > Len(s) \/ s[e] \notin class

Is(s, k, class) == k <= Len(s) /\ s[k] \in class

\* the scan that starts at character k pushed one token of this kind that
\* covers the characters k..e-1
Pushed(kind, k, e) ==
    /\ result' = result
    /\ tokens' = Append(tokens, LexToken(kind, SubSeq(src, k, e - 1), byte_offset(src, k)))
    /\ pos' = byte_offset(src, e)

\* the scan ended tokenize with the error UnexpectedChar for the `.` at
\* character k
DotError(k) ==
    /\ result' = UnexpectedChar(".", byte_offset(src, k))
    /\ tokens' = tokens

DigitLeadingScan ==
    LET k == TokenStart
        d == RunEnd(src, k, AsciiDigit)
    IN (result.st = "running" /\ k <= Len(src)) =>
          /\ (Is(src, k, AsciiDigit) /\ Is(src, d, AsciiAlphabetic \cup {"_"})) =>
                 Pushed("Ident", k, RunEnd(src, d, IdentContinue))
          /\ (Is(src, k, AsciiDigit) /\ Is(src, d, {"."}) /\ Is(src, d + 1, AsciiDigit)) =>
                 Pushed("DecLit", k, RunEnd(src, d + 1, AsciiDigit))
          /\ (Is(src, k, AsciiDigit) /\ Is(src, d, {"."}) /\ ~Is(src, d + 1, AsciiDigit)) =>
                 DotError(d)
          /\ (Is(src, k, AsciiDigit) /\ ~Is(src, d, AsciiAlphabetic \cup {"_", "."})) =>
                 Pushed("NumLit", k, d)
          /\ Is(src, k, {"."}) => DotError(k)

\* C16: a digit run followed by a letter or underscore lexes as one identifier
\* over the whole alphanumeric/underscore run; followed by `.` and a digit, as a
\* decimal literal; followed by `.` and no digit, it is a lexical error at the
\* byte of the `.`; a leading `.` is a lexical error; otherwise the digit run
\* is an integer literal.
C16_DigitLeadingScans == [][DigitLeadingScan]_vars

\* `123_456` was lexed as one identifier
C16_Witness ==
    /\ src = Chs("123_456")
    /\ handler = "number"
    /\ tokens = <<LexToken("Ident", Chs("123_456"), 0)>>
    /\ pos = 7

\* bytes a token takes in the source: its lexeme, and the two quotes of a
\* text literal
token_bytes(tok) == src_len(tok.lexeme) + (IF tok.kind = "TextLit" THEN 2 ELSE 0)

\* C17: when tokenize succeeds the tokens end with an end marker, which is the
\* only one, at the byte length of the input; token positions increase strictly
\* and no two tokens overlap in the source.
C17_EndMarkerAndPositions ==
    (handler = "eof" /\ result = Done) =>
        /\ Len(tokens) >= 1
        /\ \A i \in 1..Len(tokens) : tokens[i].kind = "Eof" <=> i = Len(tokens)
        /\ tokens[Len(tokens)].pos = src_len(src)
        /\ \A i \in 1..(Len(tokens) - 1) :
               /\ tokens[i].pos < tokens[i + 1].pos
               /\ tokens[i].pos + token_bytes(tokens[i]) <= tokens[i + 1].pos

\* a text literal with a two-byte character, then whitespace, then the end
C17_Witness ==
    /\ src = <<Quote, "U+00E9", Quote, " ">>
    /\ result = Done
    /\ Len(tokens) = 2
    /\ tokens[2].pos = 5

\* the byte offsets at which the lines of a text start, stated directly: 0
\* and the offset after each newline
NewlineOffsets(text) == {byte_offset(text, k) : k \in {j \in 1..Len(text) : text[j] = "\n"}}
LineStartOffsets(text) == {0} \cup {o + 1 : o \in NewlineOffsets(text)}
NumLines(text) == Cardinality(LineStartOffsets(text))
LineStart(text, line) ==
    CHOOSE o \in LineStartOffsets(text) :
        Cardinality({x \in LineStartOffsets(text) : x < o}) = line - 1

\* the offset p lies on this 1-based line
OnLine(text, p, line) ==
    /\ line \in 1..NumLines(text)
    /\ LineStart(text, line) <= p
    /\ IF line < NumLines(text) THEN p < LineStart(text, line + 1) ELSE p <= src_len(text)

\* C18: for every offset from 0 to the length of the text, line_col returns the
\* 1-based line and column with line_start(line) + column - 1 = pos and pos
\* within that line; an offset that is a line start is column 1 of that line.
C18_LineColLocatesOffset ==
    handler = "line_col" =>
        /\ result.st = "line_col"
        /\ result.col >= 1
        /\ OnLine(src, pos, result.line)
        /\ LineStart(src, result.line) + result.col - 1 = pos
        /\ pos \in LineStartOffsets(src) => result.col = 1

\* the offset right after a newline is column 1 of the second line
C18_Witness ==
    /\ handler = "line_col"
    /\ src = <<"a", "\n", "a">>
    /\ pos = 2
    /\ result = LineCol(2, 1)

\* the caret line the block of a span must have
ExpectedCaretLine(text, span) ==
    LET line == CHOOSE l \in 1..NumLines(text) : OnLine(text, span.start, l)
        column == span.start - LineStart(text, line) + 1
        line_end == IF line < NumLines(text) THEN LineStart(text, line + 1) - 1
                    ELSE src_len(text)
        line_length == line_end - LineStart(text, line)
        start_col == IF span.start \in NewlineOffsets(text) THEN line_length
                     ELSE IF column - 1 <= line_length THEN column - 1 ELSE line_length
        clamped == IF span.end - span.start <= line_length - start_col
                   THEN span.end - span.start ELSE line_length - start_col
        width == IF clamped >= 1 THEN clamped ELSE 1
    IN [i \in 1..(IF line < 10 THEN 1 ELSE 2) |-> " "] \o <<" ", "|", " ">>
           \o [i \in 1..start_col |-> " "] \o [i \in 1..width |-> "^"]

HasPrimaryBlock ==
    diagnostic.severity \in {"Error", "Warning"} \/ diagnostic.span.start # diagnostic.span.end

HasNoteBlock ==
    /\ diagnostic.severity \in {"Error", "Warning"}
    /\ diagnostic.notes # <<>>
    /\ diagnostic.notes[Len(diagnostic.notes)].span # <<>>

\* C19: the caret line of every rendered source block is start_col spaces and
\* width carets after the gutter, start_col being the line length when the
\* span starts on a newline byte and min(column - 1, line length) otherwise,
\* and width being max(1, min(span.end - span.start, line length - start_col)).
C19_CaretLine ==
    handler \in {"render", "relabel"} =>
        /\ HasPrimaryBlock =>
               result.out[5] = ExpectedCaretLine(src, diagnostic.span)
        /\ HasNoteBlock =>
               result.out[Len(result.out) - (IF diagnostic.help = <<>> THEN 0 ELSE 2)]
                   = ExpectedCaretLine(src, diagnostic.notes[Len(diagnostic.notes)].span[1])

\* an empty span on the newline of the first line: one caret at the end of
\* that line
C19_Witness ==
    /\ handler = "render"
    /\ src = <<"a", "\n", "a">>
    /\ diagnostic.severity = "Error"
    /\ diagnostic.span = ByteSpan(1, 1)
    /\ result.out[4] = <<"1", " ", "|", " ", "a">>
    /\ result.out[5] = <<" ", " ", "|", " ", " ", "^">>

\* header, arrow line, gutter line, source line and primary caret line
PrimaryLines(out) == SubSeq(out, 1, IF Len(out) <= 5 THEN Len(out) ELSE 5)

SecondaryLabelsKeepPrimary ==
    handler' = "relabel" => PrimaryLines(result'.out) = PrimaryLines(result.out)

\* C20: the header, arrow line, source line and primary caret line that render
\* produces are the same whatever secondary labels are attached.
C20_SecondaryLabelsDoNotShiftCaret == [][SecondaryLabelsKeepPrimary]_vars

\* a diagnostic rendered again with a secondary label, which got its line
C20_Witness ==
    /\ handler = "relabel"
    /\ diagnostic.severity = "Error"
    /\ diagnostic.span.start > 0
    /\ diagnostic.secondary # <<>>
    /\ Len(result.out) >= 6
    /\ result.out[6] # <<>>
    /\ result.out[6][Len(result.out[6])] = "label"

\* index of the first occurrence of a character in a line, 0 when absent
FirstIndex(line, ch) ==
    IF \E i \in 1..Len(line) : line[i] = ch
    THEN CHOOSE i \in 1..Len(line) : line[i] = ch /\ \A j \in 1..(i - 1) : line[j] # ch
    ELSE 0

\* the gutter of a rendered line ends with the bar and one space
GutterLen(line) == FirstIndex(line, "|") + 1

\* zero-based column, after the gutter, of the first caret of a caret line
CaretColumn(line) == FirstIndex(line, "^") - 1 - GutterLen(line)

LabelTexts == {"label", "other"}
IsLabelLine(line) == line # <<>> /\ line[Len(line)] \in LabelTexts

\* the label line for a primary caret at this zero-based column: the dashes
\* end one column before the caret, then one space, then the label
ExpectedLabelLine(gutter_len, start_col, label) ==
    LET dashes == IF start_col <= 8 THEN start_col ELSE 8
    IN [i \in 1..(gutter_len + start_col) |->
            IF i <= gutter_len THEN (IF i = gutter_len - 1 THEN "|" ELSE " ")
            ELSE IF i <= gutter_len + start_col - dashes THEN " " ELSE "-"]
       \o <<" ", label>>

HasLabels ==
    /\ handler \in {"render", "relabel"}
    /\ diagnostic.severity \in {"Error", "Warning"}
    /\ diagnostic.secondary # <<>>

\* C21: every label line of an Error or Warning diagnostic has min(start_col, 8)
\* dashes that end one column before the first primary caret of the same
\* output, then one space and the label text, for every start of the primary
\* span.
C21_LabelDashesEndBeforeCaret ==
    HasLabels =>
        \A i \in 6..Len(result.out) :
            IsLabelLine(result.out[i]) =>
                result.out[i] = ExpectedLabelLine(GutterLen(result.out[5]),
                                                  CaretColumn(result.out[5]),
                                                  result.out[i][Len(result.out[i])])

LabelLines(out) == {i \in 1..Len(out) : IsLabelLine(out[i])}

\* C22: an Error or Warning diagnostic with k secondary labels renders exactly
\* k label lines right after the primary block, one per label in attachment
\* order, wherever the primary span starts; a Note or Help diagnostic renders
\* no label line.
C22_OneLabelLinePerLabel ==
    handler \in {"render", "relabel"} =>
        IF diagnostic.severity \in {"Error", "Warning"}
        THEN /\ LabelLines(result.out) = 6..(5 + Len(diagnostic.secondary))
             /\ \A i \in 1..Len(diagnostic.secondary) :
                    result.out[5 + i][Len(result.out[5 + i])] = diagnostic.secondary[i][2]
        ELSE LabelLines(result.out) = {}

\* C23: when the diagnostic carries help text, the output ends with a blank
\* line and then the line "help: {text}", whatever the severity.
C23_HelpRendersLast ==
    (handler \in {"render", "relabel"} /\ diagnostic.help # <<>>) =>
        /\ Len(result.out) >= 3
        /\ result.out[Len(result.out) - 1] = <<>>
        /\ result.out[Len(result.out)] = <<"help", ":", " ", diagnostic.help[1]>>

IsWithHelp(call) == call.op = "with_help"
IsWithSecondary(call) == call.op = "with_secondary"
IsWithNote(call) == call.op = "with_note"
Args(selected) == [i \in 1..Len(selected) |-> selected[i].arg]

\* the diagnostic holds the labels and the notes in the order of their calls
\* and the help text of the last with_help, however the calls were interleaved
BuiltFromCalls ==
    /\ diagnostic.secondary = Args(SelectSeq(calls, IsWithSecondary))
    /\ diagnostic.notes = Args(SelectSeq(calls, IsWithNote))
    /\ diagnostic.help = IF SelectSeq(calls, IsWithHelp) = <<>> THEN <<>>
                         ELSE <<SelectSeq(calls, IsWithHelp)[Len(SelectSeq(calls, IsWithHelp))].arg>>

\* a builder call changes its own field only
BuilderFrame ==
    /\ diagnostic'.severity = diagnostic.severity
    /\ diagnostic'.message = diagnostic.message
    /\ diagnostic'.span = diagnostic.span
    /\ handler' # "with_help" => diagnostic'.help = diagnostic.help
    /\ handler' # "with_secondary" => diagnostic'.secondary = diagnostic.secondary
    /\ handler' # "with_note" => diagnostic'.notes = diagnostic.notes

\* C24: one label, one note and the help text give the same Diagnostic in every
\* order of the three calls; each call leaves the other fields unchanged; several
\* labels or notes are stored in attachment order.
C24_BuildersCommute == []BuiltFromCalls /\ [][BuilderFrame]_vars

\* help, then two labels
C24_Witness ==
    /\ calls = <<Call("with_help", "help_text"),
                 Call("with_secondary", <<ByteSpan(1, 2), "secondary">>),
                 Call("with_secondary", <<ByteSpan(0, 1), "other">>)>>
    /\ diagnostic.help = <<"help_text">>
    /\ diagnostic.secondary = <<<<ByteSpan(1, 2), "secondary">>, <<ByteSpan(0, 1), "other">>>>
    /\ diagnostic.notes = <<>>

\* the value read through a name that resolves
ValueOf(e, name) == e.slots[lookup(e, name)]

\* the step was an evaluation of a node of this kind that returned
Returned(h) == handler' = h /\ result'.st = "ok"

\* after Copy{name, target} both names resolve to the slot the target had
CopyAliases ==
    Returned("copy") =>
        LET node == calls'[1].node
        IN /\ lookup(env, node.target) # 0
           /\ lookup(env', node.target) = lookup(env, node.target)
           /\ lookup(env', node.name) = lookup(env, node.target)

\* an assignment through a name is read through every name of the same slot,
\* and leaves every name on its slot
AssignReachesAliases ==
    Returned("assign") =>
        LET name == calls'[1].arg[1]
            value == calls'[1].arg[2]
        IN /\ env'.scopes = env.scopes
           /\ \A other \in Names :
                  lookup(env, other) = lookup(env, name) => ValueOf(env', other) = value

\* a name that survives the pop of a scope keeps its slot and the slot its value
PopKeepsOuterSlots ==
    Returned("pop_scope") =>
        \A name \in Names :
            LET outer == lookup_from(env.scopes, name, Len(env.scopes) - 1)
            IN outer # 0 =>
                   /\ lookup(env', name) = outer
                   /\ env'.slots[outer] = env.slots[outer]

\* C25: after a copy both names resolve to the same slot, so that a value
\* assigned through either is read through the other, also after the scope of
\* the alias has been popped.
C25_CopyAliases == [][CopyAliases /\ AssignReachesAliases /\ PopKeepsOuterSlots]_vars

\* x was assigned 1 and y, an alias of x made by a copy, reads 1
C25_Witness ==
    /\ handler = "assign"
    /\ calls = <<Call("assign", <<"x", Value("Num", 1)>>)>>
    /\ lookup(env, "x") # 0
    /\ lookup(env, "y") = lookup(env, "x")
    /\ ValueOf(env, "y") = Value("Num", 1)

\* the places that hold a slot: scope k, name
Bindings(e) == {<<k, name>> : k \in 1..Len(e.scopes), name \in Names}
Bound_to(e, binding) ==
    IF binding[2] \in DOMAIN e.scopes[binding[1]] THEN e.scopes[binding[1]][binding[2]] ELSE 0

\* Define, DefineEmpty and Bind give the name a slot that nothing referred to,
\* leave every other binding on its slot and every other slot its value; the
\* slot of a Bind holds the value the target had
DefinesFreshSlot ==
    (handler' \in {"define", "define_empty", "bind"} /\ result'.st = "ok") =>
        LET node == calls'[1].node
            slot == lookup(env', node.name)
        IN /\ slot # 0
           /\ slot \notin Referenced(env.scopes)
           /\ \A binding \in Bindings(env) \ {<<Len(env.scopes), node.name>>} :
                  Bound_to(env', binding) = Bound_to(env, binding)
           /\ \A id \in Referenced(env'.scopes) \ {slot} : env'.slots[id] = env.slots[id]
           /\ node.tag = "Bind" => env'.slots[slot] = ValueOf(env, node.target)

\* an assignment changes the slot of its name only
AssignChangesOneSlot ==
    Returned("assign") =>
        \A id \in Referenced(env.scopes) \ {lookup(env, calls'[1].arg[1])} :
            env'.slots[id] = env.slots[id]

\* C26: Define and Bind allocate a fresh slot: after a Bind the name holds the
\* value the target had, later assignments and redefinitions through one name
\* are not seen through the other, and redefining a name leaves the value seen
\* through its copy-aliases unchanged.
C26_DefineAndBindAreFresh == [][DefinesFreshSlot /\ AssignChangesOneSlot]_vars

\* y was bound to x: the same value in another slot
C26_Witness ==
    /\ handler = "bind"
    /\ calls[1].node = NodeBind("y", "x")
    /\ result.st = "ok"
    /\ lookup(env, "x") # 0
    /\ lookup(env, "y") # 0
    /\ lookup(env, "y") # lookup(env, "x")
    /\ ValueOf(env, "y") = Value("Num", 1)
    /\ ValueOf(env, "x") = Value("Num", 1)

\* the truth value the guard rules give a value: a flag its value, the explicit
\* emptiness false, an integer whether it is not zero, a text whether it is not
\* empty
GuardTruth(value) ==
    CASE value.kind = "Flag" -> value.v = TRUE
      [] value.kind = "Void" -> FALSE
      [] value.kind = "Num" -> value.v # 0
      [] value.kind = "Text" -> value.v # ""

\* the value of a literal or identifier branch in the environment of the guard
BranchValue(e, node) ==
    IF node.tag = "Ident"
    THEN (IF lookup(e, node.name) = 0 THEN Void ELSE ValueOf(e, node.name))
    ELSE CASE node.lit = "Flag" -> Value("Flag", node.num)
           [] node.lit = "Num" -> Value("Num", node.num)
           [] node.lit = "Text" -> Value("Text", node.text)
           [] node.lit = "Void" -> Void

\* the branches of the guard are flags, integers, texts, the explicit
\* emptiness and identifiers of such values
PlainBranches(e, branches) ==
    \A k \in 1..Len(branches) :
        \/ branches[k].tag = "Lit" /\ branches[k].lit \in {"Flag", "Num", "Text", "Void"}
        \/ /\ branches[k].tag = "Ident"
           /\ BranchValue(e, branches[k]).kind \in {"Flag", "Num", "Text", "Void"}

\* the first branch that is true, 0 when there is none
FirstTrue(e, branches) ==
    IF \E k \in 1..Len(branches) : GuardTruth(BranchValue(e, branches[k]))
    THEN CHOOSE k \in 1..Len(branches) :
             /\ GuardTruth(BranchValue(e, branches[k]))
             /\ \A o \in 1..(k - 1) : ~GuardTruth(BranchValue(e, branches[o]))
    ELSE 0

\* the step evaluated a guard: its visits are the guard and then the branches
\* up to the first true one, in order, and the target is defined to the value
\* of that branch, to the explicit emptiness when there is none
GuardTakesFirstTrue ==
    (handler' = "guard" /\ PlainBranches(env, calls'[1].node.branches)) =>
        LET guard == calls'[1].node
            first == FirstTrue(env, guard.branches)
            last == IF first = 0 THEN Len(guard.branches) ELSE first
        IN /\ result'.st = "ok"
           /\ Len(calls') = 1 + last
           /\ \A k \in 1..last :
                  calls'[1 + k].by = "eval_value" /\ calls'[1 + k].node = guard.branches[k]
           /\ lookup(env', guard.target) # 0
           /\ ValueOf(env', guard.target) =
                  IF first = 0 THEN Void ELSE BranchValue(env, guard.branches[first])

\* C27: a Guard evaluates its branches left to right, stops at the first
\* branch that is true (a flag by its value, the explicit emptiness false, an
\* integer when it is not zero, a text when it is not empty), defines the
\* target to the value of that branch without evaluating the later branches,
\* and defines it to the explicit emptiness when no branch is true.
C27_GuardTakesFirstTrue == [][GuardTakesFirstTrue]_vars

\* a guard whose second branch is the first true one of three: the third was
\* not visited and x is 1
C27_Witness ==
    /\ handler = "guard"
    /\ calls = <<Visit("eval_node_ctrl",
                       NodeGuard("x", <<LitFlag(FALSE), LitNum(1), LitNum(2)>>), EnvNew),
                 Visit("eval_value", LitFlag(FALSE), EnvNew),
                 Visit("eval_value", LitNum(1), EnvNew)>>
    /\ result.st = "ok"
    /\ ValueOf(env, "x") = Value("Num", 1)

\* the statements executed of these, with their level below the block: in
\* order, into the blocks among them, and none after an executed ret
HasRet(run) == \E k \in 1..Len(run) : run[k].node.tag = "Ret"

RECURSIVE Executed(_, _)
Executed(ns, level) ==
    IF ns = <<>> THEN <<>>
    ELSE LET own == IF ns[1].tag = "Block"
                    THEN <<[node |-> ns[1], level |-> level]>>
                             \o Executed(ns[1].nodes, level + 1)
                    ELSE <<[node |-> ns[1], level |-> level]>>
         IN IF HasRet(own) THEN own ELSE own \o Executed(Tail(ns), level)

\* the visits of statements among these visits
StatementVisits(trace) == SelectSeq(trace, LAMBDA visit : visit.by = "eval_node_ctrl")

\* the evaluation of the block has returned: to the loop of eval_program, or,
\* with a Return, to the panic of eval_node
BlockReturned ==
    /\ handler' = "block"
    /\ \/ result'.st = "ok"
       \/ result' = Panic("return executed outside of a function")

\* a block that has returned leaves the scope stack as it was, made its
\* statements one scope deeper per block around them, never with an empty stack,
\* executed nothing after a ret, and ended in a Return exactly when a ret was
\* executed
BlockRestoresScopes ==
    BlockReturned =>
        LET block == calls'[1].node
            run == Executed(<<block>>, 0)
            visits == StatementVisits(calls')
        IN /\ Len(env'.scopes) = Len(env.scopes)
           /\ env'.scopes = env.scopes
           /\ \A name \in Names : lookup(env', name) = lookup(env, name)
           /\ \A k \in 1..Len(calls') : calls'[k].depth >= 1
           /\ Len(visits) = Len(run)
           /\ \A k \in 1..Len(run) :
                  /\ visits[k].node = run[k].node
                  /\ visits[k].depth = Len(env.scopes) + run[k].level
           /\ HasRet(run) <=> result'.st = "panic"

\* C30: a Block pushes one scope and pops it on every way out, an early Return
\* from a nested node included: the depth of the scope stack after the block is
\* the depth before it, the stack is never empty, the nodes after an executed
\* ret are not evaluated, and the names defined inside are not visible after.
C30_BlockRestoresScopes == [][BlockRestoresScopes]_vars

\* a block whose nested block returned early: the statements after the ret,
\* in the nested block and in the outer one, were not visited, and x and y,
\* defined in the blocks, are not visible after them
C30_Witness ==
    /\ handler = "block"
    /\ Len(calls) = 6
    /\ calls[1].node.tag = "Block" /\ calls[1].depth = 1
    /\ calls[2].node = NodeDefineEmpty("x") /\ calls[2].depth = 2
    /\ calls[3].node.tag = "Block" /\ calls[3].depth = 2
    /\ calls[4].node = NodeCopy("y", "x") /\ calls[4].depth = 3
    /\ calls[5].node = NodeRet(TRUE, LitNum(1)) /\ calls[5].depth = 3
    /\ calls[6] = [by |-> "eval_value", node |-> LitNum(1), depth |-> 3]
    /\ Len(env.scopes) = 1
    /\ lookup(env, "x") = 0
    /\ lookup(env, "y") = 0
    /\ result = Panic("return executed outside of a function")

\* the token kinds that Lexer::tokenize makes
LexedKinds ==
    {"Ident", "NumLit", "DecLit", "TextLit", "KwNum", "KwDec", "KwFlag", "KwText", "KwEmp",
     "BlockExprStart", "BlockExprEnd", "BlockExprChain", "BlockStmtStart", "BlockStmtEnd",
     "BlockStmtChain", "BlockFuncStart", "BlockFuncEnd", "BlockFuncChain", "BlockArrayStart",
     "BlockArrayEnd", "BlockArrayChain", "Guard", "DefineEmpty", "Pipe", "Eq", "Ne", "Le",
     "Ge", "And", "Or", "Not", "ArrowR", "ArrowL", "Scope", "Bind", "Present", "Cast",
     "Colon", "Define", "Add", "Sub", "Mul", "Div", "Mod", "Gt", "Lt", "LParen", "RParen",
     "Comma", "Semicolon", "Eof"}

\* the token sequence is one the lexer can make: kinds of the lexer, ended by
\* the one end marker
Lexed(toks) ==
    /\ \A i \in 1..Len(toks) : toks[i].kind \in LexedKinds
    /\ \A i \in 1..Len(toks) : toks[i].kind = "Eof" <=> i = Len(toks)

\* C28: for every token sequence the lexer can produce parse_program returns a
\* Program or a Diagnostic: no parser state executes an `unreachable!` or
\* indexes past the token slice.
C28_ParserNeverPanics == Lexed(tokens) => result.st # "panic"

\* the last statement parser was one of these and returned a node
ValueHandlers == {"define", "guard", "ret", "call_statement"}
ReturnedNode == handler \in ValueHandlers /\ result.st \in {"running", "ok"}

\* the `;` that the terminator search of the statement at stmt_start finds
StmtEnd == FirstOf(tokens, stmt_start, {"Semicolon"})

\* C29: when parse_define, parse_guard, parse_ret or parse_call_statement
\* returns a node, the last token it consumed is the `;` its terminator search
\* found (the cursor is at stmt_end + 1): no token before that `;` is skipped
\* and no other token is consumed as the terminator.
C29_TerminatorIsTheSemicolonFound ==
    ReturnedNode =>
        /\ StmtEnd # 0
        /\ index = StmtEnd + 1
        /\ tokens[index - 1].kind = "Semicolon"

====
